---- MODULE Spec2Model ----
(***************************************************************************)
(* Model of the streaming tool-call orchestration of nash-local-server:    *)
(*   app/stream_processor.py  StreamProcessor (chunk accumulator)          *)
(*   app/llm_handler.py       history hygiene, rate-limit policy, request  *)
(*   app/server.py            process_llm_stream (the orchestration loop)  *)
(*                                                                         *)
(* Two specifications share the variables:                                 *)
(*   Spec     one run of process_llm_stream against a nondeterministic     *)
(*            provider, tool backend and tool catalog;                     *)
(*   SpecAcc  one StreamProcessor fed an arbitrary chunk sequence.         *)
(***************************************************************************)
EXTENDS Integers, Sequences, FiniteSets, TLC

(***************************************************************************)
(* Bounds of the model.                                                    *)
(***************************************************************************)
\* provider requests one run may issue in the model (the code has no cap)
MaxTurns == 2
\* chunks the provider may deliver over one whole run
MaxChunks == 3
\* chunks fed to the accumulator under SpecAcc
MaxAccChunks == 3
\* messages in a Conversation handed to clean_up_tool_results_inline on its own (SpecClean)
MaxCleanLen == 3
\* successive applications of clean_up_tool_results_inline to it
MaxCleanUps == 2

(***************************************************************************)
(* Python strings.  A string is a run-length encoded sequence of pieces    *)
(* [ch, n] (n >= 1 copies of the character ch), adjacent pieces having     *)
(* different characters, so that equal strings have equal encodings and    *)
(* strings longer than the 5000-character threshold stay small.            *)
(***************************************************************************)
Piece(c, k) == [ch |-> c, n |-> k]

Chr(c) == << Piece(c, 1) >>

Rep(c, k) == IF k = 0 THEN << >> ELSE << Piece(c, k) >>

RECURSIVE SLen(_)
SLen(s) == IF s = << >> THEN 0 ELSE Head(s).n + SLen(Tail(s))

\* s + t
SCat(s, t) ==
    IF s = << >> THEN t
    ELSE IF t = << >> THEN s
    ELSE IF s[Len(s)].ch = Head(t).ch
         THEN SubSeq(s, 1, Len(s) - 1)
              \o << Piece(Head(t).ch, s[Len(s)].n + Head(t).n) >>
              \o Tail(t)
         ELSE s \o t

\* s[:k]
STakeBug(s, k) == s

RECURSIVE STake(_, _)
STake(s, k) ==
    IF k <= 0 \/ s = << >> THEN << >>
    ELSE IF Head(s).n >= k THEN << Piece(Head(s).ch, k) >>
    ELSE << Head(s) >> \o STake(Tail(s), k - Head(s).n)

(***************************************************************************)
(* Optional[str]: None, or a string.  Truthy is "not None and not empty".  *)
(***************************************************************************)
None == [some |-> FALSE, v |-> << >>]

Some(s) == [some |-> TRUE, v |-> s]

Truthy(o) == o.some /\ o.v # << >>

(***************************************************************************)
(* Chunks as the provider client delivers them: a chunk has a list of      *)
(* choices; a choice has a delta (content, tool_calls) and a finish        *)
(* reason; a tool-call fragment has an id ("" when it carries none), a     *)
(* function name (None or a string) and an argument string.                *)
(***************************************************************************)
Frag(i, nm, ar) == [id |-> i, name |-> nm, arguments |-> ar]

Choice(c, tcs, fr) == [content |-> c, tool_calls |-> tcs, finish_reason |-> fr]

Chunk(chs) == [choices |-> chs]

\* the absent finish reason (None)
NoFinish == ""

(***************************************************************************)
(* StreamProcessor                                                         *)
(***************************************************************************)
\* __init__
NewProcessor ==
    [content |-> << >>, tool_calls |-> << >>, is_streaming |-> FALSE,
     finish_reason |-> NoFinish]

\* the dict process_chunk starts from
EmptyStreamable == [content |-> None, tool_name |-> None, tool_args |-> None]

\* json.loads(tool_call.to_json()): the record appended for an id-bearing fragment
ParsedToolCall(f) == [id |-> f.id, name |-> f.name, arguments |-> f.arguments]

\* st = [p: processor, sc: streamable content, raised: BOOLEAN]
\* one iteration of "for tool_call in choice.delta.tool_calls"
ApplyFragment(st, f) ==
    IF st.raised THEN st
    ELSE IF f.id # ""
    THEN [st EXCEPT
            !.p.tool_calls = Append(@, ParsedToolCall(f)),
            !.sc.tool_name = IF Truthy(f.name) THEN f.name ELSE @,
            !.sc.tool_args = IF f.arguments # << >> THEN Some(f.arguments) ELSE @]
    ELSE IF st.p.tool_calls = << >>
    THEN [st EXCEPT !.raised = TRUE]                         \* IndexError: self.tool_calls[-1]
    ELSE LET k == Len(st.p.tool_calls)
             last == st.p.tool_calls[k]
         IN  IF Truthy(f.name) /\ ~last.name.some
             THEN [st EXCEPT !.raised = TRUE]                \* TypeError: None += str
             ELSE [st EXCEPT
                     !.p.tool_calls[k].name =
                         IF Truthy(f.name) THEN Some(SCat(last.name.v, f.name.v)) ELSE @,
                     !.sc.tool_name = IF Truthy(f.name) THEN f.name ELSE @,
                     !.p.tool_calls[k].arguments =
                         IF f.arguments # << >> THEN SCat(@, f.arguments) ELSE @,
                     !.sc.tool_args =
                         IF f.arguments # << >> THEN Some(f.arguments) ELSE @]

RECURSIVE ApplyFragments(_, _)
ApplyFragments(st, fs) ==
    IF fs = << >> THEN st
    ELSE ApplyFragments(ApplyFragment(st, Head(fs)), Tail(fs))

\* one iteration of "for choice in chunk.choices"
ApplyChoice(st, c) ==
    IF st.raised THEN st
    ELSE LET s1 == IF Truthy(c.content)
                   THEN [st EXCEPT !.p.content = SCat(@, c.content.v),
                                   !.sc.content = c.content]
                   ELSE st
             s2 == ApplyFragments(s1, c.tool_calls)
         IN  IF s2.raised THEN s2
             ELSE IF c.finish_reason # NoFinish
                  THEN [s2 EXCEPT !.p.is_streaming = FALSE,
                                  !.p.finish_reason = c.finish_reason]
                  ELSE s2

RECURSIVE ApplyChoices(_, _)
ApplyChoices(st, cs) ==
    IF cs = << >> THEN st
    ELSE ApplyChoices(ApplyChoice(st, Head(cs)), Tail(cs))

\* process_chunk: the processor after the chunk, the returned dict, and
\* whether the call raised
process_chunk(p, chunk) ==
    ApplyChoices([p |-> [p EXCEPT !.is_streaming = TRUE],
                  sc |-> EmptyStreamable, raised |-> FALSE],
                 chunk.choices)

\* a message of the Conversation; every record carries every field, the
\* fields a Python dict does not have being has_tool_calls = FALSE,
\* tool_call_id = "", name = None
Message(r, c, tcs, tcid, nm, err) ==
    [role |-> r, content |-> c, has_tool_calls |-> tcs # << >>, tool_calls |-> tcs,
     tool_call_id |-> tcid, name |-> nm, is_error |-> err]

\* get_assistant_message: "tool_calls" is present iff self.tool_calls is non-empty
get_assistant_message(p) ==
    Message("assistant", p.content, p.tool_calls, "", None, FALSE)

\* json.loads on the argument text, over the model's alphabet {a, x, "{", "}"}:
\* the only JSON text is "{}"
JsonParses(s) == s = SCat(Chr("{"), Chr("}"))

\* the fixed texts of execute_tool_calls_and_get_user_message, by length
NoResultContent == Rep("N", 17)

ErrorExecutingTool == Rep("E", 22)

\* str(e) of the JSONDecodeError, and of an exception raised by call_tool
JsonErrorText == Chr("j")

ToolErrorText == Chr("t")

\* what mcp.call_tool can do: raise, or return a result with a content list
\* (empty, or whose first item has the text) and an isError flag
ToolOutcome(r, has, txt, err) == [raises |-> r, has_content |-> has, text |-> txt, isError |-> err]

\* the message one iteration of "for tool_call in self.tool_calls" appends;
\* out is what call_tool does when the arguments parse
ToolIdOfBug(tc) == "other"

ToolIdOf(tc) == tc.id

ToolCallMessage(tc, out) ==
    IF ~JsonParses(tc.arguments)
    THEN Message("tool", SCat(ErrorExecutingTool, JsonErrorText), << >>, ToolIdOf(tc), tc.name, TRUE)
    ELSE IF out.raises
    THEN Message("tool", SCat(ErrorExecutingTool, ToolErrorText), << >>, ToolIdOf(tc), tc.name, TRUE)
    ELSE Message("tool", IF out.has_content THEN out.text ELSE NoResultContent,
                 << >>, ToolIdOf(tc), tc.name, out.isError)

(***************************************************************************)
(* llm_handler.py                                                          *)
(***************************************************************************)
\* the size threshold of clean_up_tool_results_inline
TruncateLimit == 5000

\* "... (Truncated. Rerun tool to operate on full results again.)", by length
TruncateMsg == Rep("T", 61)

CleanMessageBug(m) ==
    IF m.role = "tool" /\ SLen(m.content) > TruncateLimit
    THEN [m EXCEPT !.content = SCat(m.content, TruncateMsg)]
    ELSE m

CleanMessage(m) ==
    IF m.role = "tool" /\ SLen(m.content) > TruncateLimit
    THEN [m EXCEPT !.content = SCat(STake(m.content, TruncateLimit), TruncateMsg)]
    ELSE m

\* clean_up_tool_results_inline: every message but the last
clean_up_tool_results_inlineBug(msgs) == [i \in 1..Len(msgs) |-> CleanMessage(msgs[i])]

clean_up_tool_results_inline(msgs) ==
    [i \in 1..Len(msgs) |-> IF i < Len(msgs) THEN CleanMessage(msgs[i]) ELSE msgs[i]]

\* the MCPHandler class as defined (mcp_handler.py 10-17): nothing open, the
\* lock free (0, or the task that holds it); started, clients, sessions,
\* closing, init_failed, init_returns and uses are the history of the
\* handler: the calls made on it, the stdio clients and the ClientSessions
\* created, whether close was ever called, whether an initialization failed,
\* how many calls of initialize returned, and what the calls of call_tool
\* and list_tools met
NewMcp ==
    [initialized |-> FALSE, session |-> "null", client_ctx |-> "null", lock |-> 0,
     started |-> 0, clients |-> 0, sessions |-> 0, closing |-> FALSE,
     init_failed |-> FALSE, init_returns |-> 0, uses |-> { }]

\* the litellm module as imported: no key, no base URL ("" stands for None)
NewLitellm == [api_key |-> "", api_base |-> ""]

\* configure_llm: the key is always assigned (None when not given), the base
\* URL only when given
configure_llm(g, key, base) ==
    [api_key |-> key, api_base |-> IF base # "" THEN base ELSE g.api_base]

\* stream_llm_response raises ValueError before any provider call
RequestInvalid(msgs, mdl, base) == msgs = << >> \/ mdl = "" \/ base = ""

\* response headers: the nine rate-limit keys are all present or not; a
\* dimension is [limit, remaining, reset]; a reset is a timestamp that parses
\* (secs = reset time - now, in seconds) or one fromisoformat rejects
Reset(good, s) == [ok |-> good, secs |-> s]

Dim(l, r, rs) == [limit |-> l, remaining |-> r, reset |-> rs]

Headers(p, it, ot, rq) == [present |-> p, input_tokens |-> it, output_tokens |-> ot, requests |-> rq]

\* remaining <= limit * 0.1
IsLow(d) == 10 * d.remaining <= d.limit

Metadata(r, s) == [raised |-> r, sleep_seconds |-> s]

SleepFor(d) == IF d.reset.ok THEN Metadata(FALSE, d.reset.secs) ELSE Metadata(TRUE, 0)

get_response_metadata_from_headersBug(h) ==
    IF ~h.present THEN Metadata(FALSE, 0)
    ELSE IF IsLow(h.requests) THEN SleepFor(h.requests)
    ELSE IF IsLow(h.output_tokens) THEN SleepFor(h.output_tokens)
    ELSE IF IsLow(h.input_tokens) THEN SleepFor(h.input_tokens)
    ELSE Metadata(FALSE, 0)

get_response_metadata_from_headers(h) ==
    IF ~h.present THEN Metadata(FALSE, 0)
    ELSE IF IsLow(h.input_tokens) THEN SleepFor(h.input_tokens)
    ELSE IF IsLow(h.output_tokens) THEN SleepFor(h.output_tokens)
    ELSE IF IsLow(h.requests) THEN SleepFor(h.requests)
    ELSE Metadata(FALSE, 0)

(***************************************************************************)
(* State                                                                   *)
(***************************************************************************)
VARIABLES
    pc,                     \* position of process_llm_stream (or "acc" under SpecAcc)
    messages,               \* the Conversation (the list the caller passed in)
    initial_message_count,
    model,                  \* the model and api_base_url arguments
    api_base_url,
    processor,              \* the turn's StreamProcessor
    response_metadata,      \* sleep_seconds of the turn's response metadata
    tool_index,             \* execute_tool_calls...: the ToolCall the loop is at
    tool_messages,          \* execute_tool_calls...: the list "messages" it builds
    events,                 \* everything the generator has yielded, in order
    hist,                   \* history of the run, for stating the properties
    fed,                    \* SpecAcc: the chunks fed so far; SpecMeta: the headers read;
                            \* SpecClean: the Conversation before and after every application
    acc_raised,             \* SpecAcc: process_chunk raised; SpecMeta: the read raised
    litellm,                \* the litellm module's globals api_key and api_base
    runs,                   \* SpecCfg: the concurrent calls of stream_llm_response
    mcp,                    \* SpecMcp: the fields of the MCPHandler singleton, and its lock
    tasks                   \* SpecMcp: the tasks that call the MCPHandler concurrently

vars == << pc, messages, initial_message_count, model, api_base_url, processor,
           response_metadata, tool_index, tool_messages, events, hist, fed, acc_raised,
           litellm, runs, mcp, tasks >>

(***************************************************************************)
(* Outward events: the JSON object after "data: ", or the "[DONE]" text.   *)
(* has_type says whether the object has a "type" key, error whether it has *)
(* an "error" key.                                                         *)
(***************************************************************************)
Event(t, c, tn, ta, tr, nm, fr, sl) ==
    [kind |-> "json", has_type |-> TRUE, type |-> t, error |-> FALSE,
     content |-> c, tool_name |-> tn, tool_args |-> ta, tool_result |-> tr,
     new_raw_llm_messages |-> nm, finish_reason |-> fr, sleep_seconds |-> sl]

\* server.py 121-128
StreamEvent(sc) == Event("stream", sc.content, sc.tool_name, sc.tool_args, None, << >>, NoFinish, 0)

\* server.py 132-142
FinishEventBug(fr) ==
    [kind |-> "json", has_type |-> FALSE, type |-> "", error |-> FALSE,
     content |-> None, tool_name |-> None, tool_args |-> None, tool_result |-> None,
     new_raw_llm_messages |-> << >>, finish_reason |-> fr, sleep_seconds |-> 0]

FinishEvent(fr) == Event("finish_reason", None, None, None, None, << >>, fr, 0)

\* the result reported cut to the truncation limit
ToolResultEventBug(txt) ==
    Event("tool_result", None, None, None, Some(STake(txt, TruncateLimit)), << >>, NoFinish, 0)

\* server.py 153-163
ToolResultEvent(txt) == Event("tool_result", None, None, None, Some(txt), << >>, NoFinish, 0)

\* server.py 165-175 and 178-188
SleepEvent(s) == Event("sleep_seconds", None, None, None, None, << >>, NoFinish, s)

\* server.py 192-202
NewMessagesEvent(ms) == Event("new_raw_llm_messages", None, None, None, None, ms, NoFinish, 0)

\* server.py 210: json.dumps({'error': error_message})
ErrorEvent ==
    [kind |-> "json", has_type |-> FALSE, type |-> "", error |-> TRUE,
     content |-> None, tool_name |-> None, tool_args |-> None, tool_result |-> None,
     new_raw_llm_messages |-> << >>, finish_reason |-> NoFinish, sleep_seconds |-> 0]

\* server.py 215: "data: [DONE]"
DoneEvent ==
    [kind |-> "done", has_type |-> FALSE, type |-> "", error |-> FALSE,
     content |-> None, tool_name |-> None, tool_args |-> None, tool_result |-> None,
     new_raw_llm_messages |-> << >>, finish_reason |-> NoFinish, sleep_seconds |-> 0]

(***************************************************************************)
(* Inputs of a run                                                         *)
(***************************************************************************)
SystemMessage == Message("system", Chr("s"), << >>, "", None, FALSE)

UserMessage == Message("user", Chr("u"), << >>, "", None, FALSE)

\* an earlier tool round trip of the caller's history, its result 6000 characters long
OldCall == [id |-> "t0", name |-> Some(Chr("f")), arguments |-> SCat(Chr("{"), Chr("}"))]

OldAssistant == Message("assistant", << >>, << OldCall >>, "", None, FALSE)

OldToolResult == Message("tool", Rep("r", 6000), << >>, "t0", Some(Chr("f")), FALSE)

\* stream_completion: [system prompt] + request.messages
InitialConversations ==
    { << SystemMessage, UserMessage >>,
      << SystemMessage, UserMessage, OldAssistant, OldToolResult >> }

\* the api_key argument of the one run of Spec
ApiKey == "k"

Models == { "", "m" }

BaseUrls == { "", "u" }

\* the chunks the provider may send in a run
TextChunk == Chunk(<< Choice(Some(Chr("a")), << >>, NoFinish) >>)

OpenCallChunk == Chunk(<< Choice(None, << Frag("t1", Some(Chr("f")), SCat(Chr("{"), Chr("}"))) >>, NoFinish) >>)

OpenBareChunk == Chunk(<< Choice(None, << Frag("t2", None, << >>) >>, NoFinish) >>)

ContinueChunk == Chunk(<< Choice(None, << Frag("", None, SCat(Chr("{"), Chr("}"))) >>, NoFinish) >>)

StopChunk == Chunk(<< Choice(None, << >>, "stop") >>)

LengthChunk == Chunk(<< Choice(Some(Chr("a")), << >>, "length") >>)

ToolCallsChunk == Chunk(<< Choice(None, << >>, "tool_calls") >>)

OpenCallFinishChunk ==
    Chunk(<< Choice(None, << Frag("t1", Some(Chr("f")), SCat(Chr("{"), Chr("}"))) >>, "tool_calls") >>)

ProviderChunks ==
    { TextChunk, OpenCallChunk, OpenBareChunk, ContinueChunk, StopChunk, LengthChunk,
      ToolCallsChunk, OpenCallFinishChunk }

\* the response headers the provider may send
FineDim == Dim(100, 50, Reset(TRUE, 60))

NoHeaders == Headers(FALSE, FineDim, FineDim, FineDim)

LowHeaders == Headers(TRUE, FineDim, Dim(100, 5, Reset(TRUE, 30)), FineDim)

BadHeaders == Headers(TRUE, FineDim, FineDim, Dim(100, 0, Reset(FALSE, 0)))

ProviderHeaders == { NoHeaders, LowHeaders, BadHeaders }

\* what the tool backend may do with one call
ToolOutcomes ==
    { ToolOutcome(FALSE, TRUE, Rep("r", 6000), FALSE),
      ToolOutcome(FALSE, FALSE, << >>, TRUE),
      ToolOutcome(TRUE, FALSE, << >>, FALSE) }

NewHist ==
    [requests |-> 0,            \* provider requests issued
     tool_calls |-> 0,          \* mcp.call_tool invocations started
     sleeps |-> 0,              \* asyncio.sleep calls started
     chunks |-> 0,              \* chunks delivered over the run
     streams_ended |-> 0,       \* turns whose chunk iteration ended normally
     turn_finish |-> << >>,     \* finish reason of every turn whose assistant Message was appended
     turn_chunks |-> << >>,     \* the chunks of every turn, in order
     dispatched |-> { },        \* turns in which a ToolCall was driven
     request_len |-> << >>,     \* Len(messages) at every provider request
     calls |-> << >>,           \* per ToolCall taken up by a dispatch: its turn, its index, how it went
     rate_limited |-> FALSE,    \* the provider refused a request because the quota is exhausted
     cancelled |-> FALSE,       \* the run was cancelled at a suspension point
     failed |-> FALSE,          \* the except clause ran
     at_fail |-> << 0, 0 >>]    \* requests and tool_calls when it ran

Init ==
    /\ pc = "list_tools"
    /\ messages \in InitialConversations
    /\ initial_message_count = Len(messages)
    /\ model \in Models
    /\ api_base_url \in BaseUrls
    /\ processor = NewProcessor
    /\ response_metadata = 0
    /\ tool_index = 0
    /\ tool_messages = << >>
    /\ events = << >>
    /\ hist = NewHist
    /\ fed = << >>
    /\ acc_raised = FALSE
    /\ litellm = NewLitellm
    /\ mcp = NewMcp
    /\ tasks = << >>
    /\ runs = << >>

(***************************************************************************)
(* process_llm_stream                                                      *)
(***************************************************************************)
Emit(e) == events' = Append(events, e)

\* server.py 207-212: the except clause of the loop body
FailBug ==
    /\ Emit(ErrorEvent)
    /\ pc' = "loop_top"

Fail ==
    /\ Emit(ErrorEvent)
    /\ pc' = "end"

FailHist(h) == [h EXCEPT !.failed = TRUE, !.at_fail = << h.requests, h.tool_calls >>]

\* server.py 100: the tool catalog is listed
ListTools ==
    /\ pc = "list_tools"
    /\ pc' = "loop_top"
    /\ UNCHANGED << messages, initial_message_count, model, api_base_url, processor,
                    response_metadata, tool_index, tool_messages, events, hist, fed, acc_raised >>
    /\ UNCHANGED << litellm, runs, mcp, tasks >>

\* server.py 100: list_tools_litellm raises; the call is outside the try
ListToolsFail ==
    /\ pc = "list_tools"
    /\ pc' = "raised"
    /\ UNCHANGED << messages, initial_message_count, model, api_base_url, processor,
                    response_metadata, tool_index, tool_messages, events, hist, fed, acc_raised >>
    /\ UNCHANGED << litellm, runs, mcp, tasks >>

\* server.py 107-116 with llm_handler.py 42-47: stream_llm_response rejects its arguments
RequestRejected ==
    /\ pc = "loop_top"
    /\ RequestInvalid(messages, model, api_base_url)
    /\ processor' = NewProcessor
    /\ messages' = clean_up_tool_results_inline(messages)
    /\ Fail
    /\ hist' = FailHist(hist)
    /\ UNCHANGED << initial_message_count, model, api_base_url, response_metadata,
                    tool_index, tool_messages, fed, acc_raised >>
    /\ UNCHANGED << litellm, runs, mcp, tasks >>

RequestHist(h, n) ==
    [h EXCEPT !.requests = @ + 1, !.request_len = Append(@, n),
              !.turn_chunks = Append(@, << >>)]

\* the provider call made without the History Hygiene before it
RequestBug ==
    /\ pc = "loop_top"
    /\ ~RequestInvalid(messages, model, api_base_url)
    /\ hist.requests < MaxTurns
    /\ processor' = NewProcessor
    /\ pc' = "streaming"
    /\ hist' = RequestHist(hist, Len(messages))
    /\ UNCHANGED << messages, initial_message_count, model, api_base_url, response_metadata,
                    tool_index, tool_messages, events, fed, acc_raised >>
    /\ litellm' = configure_llm(litellm, ApiKey, api_base_url)
    /\ UNCHANGED << runs, mcp, tasks >>

\* server.py 107-116: the provider call returns the response stream
Request ==
    /\ pc = "loop_top"
    /\ ~RequestInvalid(messages, model, api_base_url)
    /\ hist.requests < MaxTurns
    /\ processor' = NewProcessor
    /\ messages' = clean_up_tool_results_inline(messages)
    /\ pc' = "streaming"
    /\ hist' = RequestHist(hist, Len(messages))
    /\ UNCHANGED << initial_message_count, model, api_base_url, response_metadata,
                    tool_index, tool_messages, events, fed, acc_raised >>
    /\ litellm' = configure_llm(litellm, ApiKey, api_base_url)
    /\ UNCHANGED << runs, mcp, tasks >>

\* server.py 114: the provider call raises
RequestFail ==
    /\ pc = "loop_top"
    /\ ~RequestInvalid(messages, model, api_base_url)
    /\ hist.requests < MaxTurns
    /\ processor' = NewProcessor
    /\ messages' = clean_up_tool_results_inline(messages)
    /\ Fail
    /\ hist' = FailHist(RequestHist(hist, Len(messages)))
    /\ UNCHANGED << initial_message_count, model, api_base_url, response_metadata,
                    tool_index, tool_messages, fed, acc_raised >>
    /\ litellm' = configure_llm(litellm, ApiKey, api_base_url)
    /\ UNCHANGED << runs, mcp, tasks >>

\* server.py 114, 207-212: the provider call raises litellm's RateLimitError,
\* the quota being exhausted; it is an Exception like any other
RequestRateLimited ==
    /\ pc = "loop_top"
    /\ ~RequestInvalid(messages, model, api_base_url)
    /\ hist.requests < MaxTurns
    /\ processor' = NewProcessor
    /\ messages' = clean_up_tool_results_inline(messages)
    /\ Fail
    /\ hist' = [FailHist(RequestHist(hist, Len(messages))) EXCEPT !.rate_limited = TRUE]
    /\ UNCHANGED << initial_message_count, model, api_base_url, response_metadata,
                    tool_index, tool_messages, fed, acc_raised >>
    /\ litellm' = configure_llm(litellm, ApiKey, api_base_url)
    /\ UNCHANGED << runs, mcp, tasks >>

ChunkHist(h, c) ==
    [h EXCEPT !.chunks = @ + 1, !.turn_chunks[Len(h.turn_chunks)] = Append(@, c)]

\* server.py 117-128: the next chunk arrives and is processed; the stream event is yielded
NextChunk(c) ==
    /\ pc = "streaming"
    /\ hist.chunks < MaxChunks
    /\ LET r == process_chunk(processor, c)
       IN  IF r.raised
           THEN /\ Fail
                /\ hist' = FailHist(ChunkHist(hist, c))
                /\ UNCHANGED processor
           ELSE /\ processor' = r.p
                /\ Emit(StreamEvent(r.sc))
                /\ pc' = IF r.p.finish_reason # NoFinish THEN "finish_event" ELSE "streaming"
                /\ hist' = ChunkHist(hist, c)
    /\ UNCHANGED << messages, initial_message_count, model, api_base_url, response_metadata,
                    tool_index, tool_messages, fed, acc_raised >>
    /\ UNCHANGED << litellm, runs, mcp, tasks >>

\* server.py 131-142: the finish_reason event is yielded
EmitFinishReason ==
    /\ pc = "finish_event"
    /\ Emit(FinishEvent(processor.finish_reason))
    /\ pc' = "streaming"
    /\ UNCHANGED << messages, initial_message_count, model, api_base_url, processor,
                    response_metadata, tool_index, tool_messages, hist, fed, acc_raised >>
    /\ UNCHANGED << litellm, runs, mcp, tasks >>

\* server.py 117: iterating the response raises
ChunkFail ==
    /\ pc = "streaming"
    /\ Fail
    /\ hist' = FailHist(hist)
    /\ UNCHANGED << messages, initial_message_count, model, api_base_url, processor,
                    response_metadata, tool_index, tool_messages, fed, acc_raised >>
    /\ UNCHANGED << litellm, runs, mcp, tasks >>

EndHist(h) == [h EXCEPT !.streams_ended = @ + 1]

\* server.py 145: the stream ended; reading the metadata raises
ReadMetadataFail(h) ==
    /\ pc = "streaming"
    /\ get_response_metadata_from_headers(h).raised
    /\ Fail
    /\ hist' = FailHist(EndHist(hist))
    /\ UNCHANGED << messages, initial_message_count, model, api_base_url, processor,
                    response_metadata, tool_index, tool_messages, fed, acc_raised >>
    /\ UNCHANGED << litellm, runs, mcp, tasks >>

TurnHist(h, fr) == [EndHist(h) EXCEPT !.turn_finish = Append(@, fr)]

\* server.py 149: the branch on the turn's finish reason
IsToolCallsTurnBug(p) == p.finish_reason # NoFinish

IsToolCallsTurn(p) == p.finish_reason = "tool_calls"

\* server.py 145-150: the stream ended with finish reason "tool_calls";
\* execute_tool_calls_and_get_user_message is entered
TurnToolCalls(h) ==
    /\ pc = "streaming"
    /\ ~get_response_metadata_from_headers(h).raised
    /\ IsToolCallsTurn(processor)
    /\ response_metadata' = get_response_metadata_from_headers(h).sleep_seconds
    /\ messages' = Append(messages, get_assistant_message(processor))
    /\ tool_index' = 1
    /\ tool_messages' = << >>
    /\ pc' = "dispatch"
    /\ hist' = TurnHist(hist, processor.finish_reason)
    /\ UNCHANGED << initial_message_count, model, api_base_url, processor, events,
                    fed, acc_raised >>
    /\ UNCHANGED << litellm, runs, mcp, tasks >>

\* server.py 198: messages[initial_message_count:]
NewMessagesBug(msgs, n) == msgs

NewMessages(msgs, n) == SubSeq(msgs, n + 1, Len(msgs))

\* server.py 145-148, 190-202: the stream ended with another finish reason
TurnFinalBug(h) ==
    /\ pc = "streaming"
    /\ ~get_response_metadata_from_headers(h).raised
    /\ ~IsToolCallsTurn(processor)
    /\ response_metadata' = get_response_metadata_from_headers(h).sleep_seconds
    /\ messages' = clean_up_tool_results_inline(Append(messages, get_assistant_message(processor)))
    /\ Emit(NewMessagesEvent(NewMessages(messages, initial_message_count)))
    /\ pc' = "final_sleep"
    /\ hist' = TurnHist(hist, processor.finish_reason)
    /\ UNCHANGED << initial_message_count, model, api_base_url, processor, tool_index,
                    tool_messages, fed, acc_raised >>
    /\ UNCHANGED << litellm, runs, mcp, tasks >>

TurnFinal(h) ==
    /\ pc = "streaming"
    /\ ~get_response_metadata_from_headers(h).raised
    /\ ~IsToolCallsTurn(processor)
    /\ response_metadata' = get_response_metadata_from_headers(h).sleep_seconds
    /\ messages' = clean_up_tool_results_inline(Append(messages, get_assistant_message(processor)))
    /\ Emit(NewMessagesEvent(NewMessages(messages', initial_message_count)))
    /\ pc' = "final_sleep"
    /\ hist' = TurnHist(hist, processor.finish_reason)
    /\ UNCHANGED << initial_message_count, model, api_base_url, processor, tool_index,
                    tool_messages, fed, acc_raised >>
    /\ UNCHANGED << litellm, runs, mcp, tasks >>

\* how the ToolCall at index k of the current turn's dispatch went, or goes
Call(h, k, how) == [turn |-> Len(h.turn_finish), index |-> k, outcome |-> how]

\* stream_processor.py 108-113: the ToolCall's arguments parse; mcp.call_tool
\* is invoked and awaited
CallTool ==
    /\ pc = "dispatch"
    /\ tool_index <= Len(processor.tool_calls)
    /\ JsonParses(processor.tool_calls[tool_index].arguments)
    /\ pc' = "tool_call"
    /\ hist' = [hist EXCEPT !.tool_calls = @ + 1,
                            !.calls = Append(@, Call(hist, tool_index, "in_flight"))]
    /\ UNCHANGED << messages, initial_message_count, model, api_base_url, processor,
                    response_metadata, tool_index, tool_messages, events, fed, acc_raised >>
    /\ UNCHANGED << litellm, runs, mcp, tasks >>

\* stream_processor.py 113-137: the awaited call returns or raises; the tool
\* Message is appended to the list and the loop goes to the next ToolCall
ExecuteToolCallBug(out) ==
    /\ pc = "tool_call"
    /\ tool_messages' = << ToolCallMessage(processor.tool_calls[tool_index], out) >> \o tool_messages
    /\ tool_index' = tool_index + 1
    /\ pc' = "dispatch"
    /\ hist' = [hist EXCEPT !.calls[Len(hist.calls)] =
                                Call(hist, tool_index, IF out.raises THEN "raised" ELSE "returned")]
    /\ UNCHANGED << messages, initial_message_count, model, api_base_url, processor,
                    response_metadata, events, fed, acc_raised >>
    /\ UNCHANGED << litellm, runs, mcp, tasks >>

ExecuteToolCall(out) ==
    /\ pc = "tool_call"
    /\ tool_messages' = Append(tool_messages, ToolCallMessage(processor.tool_calls[tool_index], out))
    /\ tool_index' = tool_index + 1
    /\ pc' = "dispatch"
    /\ hist' = [hist EXCEPT !.calls[Len(hist.calls)] =
                                Call(hist, tool_index, IF out.raises THEN "raised" ELSE "returned")]
    /\ UNCHANGED << messages, initial_message_count, model, api_base_url, processor,
                    response_metadata, events, fed, acc_raised >>
    /\ UNCHANGED << litellm, runs, mcp, tasks >>

\* stream_processor.py 110, 126-137: json.loads raises; no tool is called
ToolArgumentsFailBug ==
    /\ pc = "dispatch"
    /\ tool_index <= Len(processor.tool_calls)
    /\ ~JsonParses(processor.tool_calls[tool_index].arguments)
    /\ Fail
    /\ hist' = FailHist([hist EXCEPT !.calls = Append(@, Call(hist, tool_index, "unparsed"))])
    /\ UNCHANGED << messages, initial_message_count, model, api_base_url, processor,
                    response_metadata, tool_index, tool_messages, fed, acc_raised >>
    /\ UNCHANGED << litellm, runs, mcp, tasks >>

ToolArgumentsFail ==
    /\ pc = "dispatch"
    /\ tool_index <= Len(processor.tool_calls)
    /\ ~JsonParses(processor.tool_calls[tool_index].arguments)
    /\ tool_messages' = Append(tool_messages,
                               ToolCallMessage(processor.tool_calls[tool_index],
                                               ToolOutcome(TRUE, FALSE, << >>, FALSE)))
    /\ tool_index' = tool_index + 1
    /\ hist' = [hist EXCEPT !.calls = Append(@, Call(hist, tool_index, "unparsed"))]
    /\ UNCHANGED << pc, messages, initial_message_count, model, api_base_url, processor,
                    response_metadata, events, fed, acc_raised >>
    /\ UNCHANGED << litellm, runs, mcp, tasks >>

\* server.py 151: the tool Messages that go into the Conversation
AppendedToolMessagesBug(ms) == ms

AppendedToolMessages(ms) == << ms[1] >>

\* the result written over the last Message instead of appended
AppendToolResultBug ==
    /\ pc = "dispatch"
    /\ tool_index > Len(processor.tool_calls)
    /\ tool_messages # << >>
    /\ messages' = [messages EXCEPT ![Len(messages)] = tool_messages[1]]
    /\ Emit(ToolResultEvent(tool_messages[1].content))
    /\ pc' = "backoff"
    /\ hist' = [hist EXCEPT !.dispatched = @ \cup { Len(hist.turn_finish) }]
    /\ UNCHANGED << initial_message_count, model, api_base_url, processor, response_metadata,
                    tool_index, tool_messages, fed, acc_raised >>
    /\ UNCHANGED << litellm, runs, mcp, tasks >>

\* server.py 151-163: the first result is appended and reported
AppendToolResult ==
    /\ pc = "dispatch"
    /\ tool_index > Len(processor.tool_calls)
    /\ tool_messages # << >>
    /\ messages' = messages \o AppendedToolMessages(tool_messages)
    /\ Emit(ToolResultEvent(tool_messages[1].content))
    /\ pc' = "backoff"
    /\ hist' = [hist EXCEPT !.dispatched = @ \cup { Len(hist.turn_finish) }]
    /\ UNCHANGED << initial_message_count, model, api_base_url, processor, response_metadata,
                    tool_index, tool_messages, fed, acc_raised >>
    /\ UNCHANGED << litellm, runs, mcp, tasks >>

\* server.py 151: no ToolCall was accumulated; [0] raises IndexError
DispatchEmpty ==
    /\ pc = "dispatch"
    /\ tool_index > Len(processor.tool_calls)
    /\ tool_messages = << >>
    /\ Fail
    /\ hist' = FailHist(hist)
    /\ UNCHANGED << messages, initial_message_count, model, api_base_url, processor,
                    response_metadata, tool_index, tool_messages, fed, acc_raised >>
    /\ UNCHANGED << litellm, runs, mcp, tasks >>

\* server.py 164-175: the first sleep_seconds event is yielded, or both ifs are skipped
Backoff ==
    /\ pc = "backoff"
    /\ IF response_metadata > 0
       THEN Emit(SleepEvent(response_metadata)) /\ pc' = "sleep1"
       ELSE UNCHANGED events /\ pc' = "loop_top"
    /\ UNCHANGED << messages, initial_message_count, model, api_base_url, processor,
                    response_metadata, tool_index, tool_messages, hist, fed, acc_raised >>
    /\ UNCHANGED << litellm, runs, mcp, tasks >>

\* server.py 176-188: the first sleep; the second sleep_seconds event is yielded
Sleep1 ==
    /\ pc = "sleep1"
    /\ Emit(SleepEvent(response_metadata))
    /\ pc' = "sleep2"
    /\ hist' = [hist EXCEPT !.sleeps = @ + 1]
    /\ UNCHANGED << messages, initial_message_count, model, api_base_url, processor,
                    response_metadata, tool_index, tool_messages, fed, acc_raised >>
    /\ UNCHANGED << litellm, runs, mcp, tasks >>

\* server.py 189: the second sleep
Sleep2 ==
    /\ pc = "sleep2"
    /\ pc' = "loop_top"
    /\ hist' = [hist EXCEPT !.sleeps = @ + 1]
    /\ UNCHANGED << messages, initial_message_count, model, api_base_url, processor,
                    response_metadata, tool_index, tool_messages, events, fed, acc_raised >>
    /\ UNCHANGED << litellm, runs, mcp, tasks >>

\* server.py 203-205: the sleep of the final turn, and the break
FinalSleep ==
    /\ pc = "final_sleep"
    /\ pc' = "end"
    /\ hist' = [hist EXCEPT !.sleeps = IF response_metadata > 0 THEN @ + 1 ELSE @]
    /\ UNCHANGED << messages, initial_message_count, model, api_base_url, processor,
                    response_metadata, tool_index, tool_messages, events, fed, acc_raised >>
    /\ UNCHANGED << litellm, runs, mcp, tasks >>

\* server.py 215: the end-of-stream marker
EmitDone ==
    /\ pc = "end"
    /\ Emit(DoneEvent)
    /\ pc' = "done"
    /\ UNCHANGED << messages, initial_message_count, model, api_base_url, processor,
                    response_metadata, tool_index, tool_messages, hist, fed, acc_raised >>
    /\ UNCHANGED << litellm, runs, mcp, tasks >>

Next ==
    \/ ListTools
    \/ ListToolsFail
    \/ RequestRejected
    \/ Request
    \/ RequestFail
    \/ RequestRateLimited
    \/ \E c \in ProviderChunks : NextChunk(c)
    \/ EmitFinishReason
    \/ ChunkFail
    \/ \E h \in ProviderHeaders : ReadMetadataFail(h)
    \/ \E h \in ProviderHeaders : TurnToolCalls(h)
    \/ \E h \in ProviderHeaders : TurnFinal(h)
    \/ CallTool
    \/ \E out \in ToolOutcomes : ExecuteToolCall(out)
    \/ ToolArgumentsFail
    \/ AppendToolResult
    \/ DispatchEmpty
    \/ Backoff
    \/ Sleep1
    \/ Sleep2
    \/ FinalSleep
    \/ EmitDone

Spec == Init /\ [][Next]_vars

(***************************************************************************)
(* SpecAcc: one StreamProcessor, as the tests of test_streaming.py drive   *)
(* it: "for chunk in chunks: processor.process_chunk(chunk)".              *)
(***************************************************************************)
AccFrags ==
    { Frag(i, nm, ar) : i \in { "", "t1", "t2" }, nm \in { None, Some(Chr("f")) },
                        ar \in { << >>, Chr("x") } }

AccChoices ==
    { Choice(c, << >>, NoFinish) : c \in { None, Some(Chr("a")), Some(Chr("b")) } }
    \cup { Choice(None, << f >>, NoFinish) : f \in AccFrags }
    \cup { Choice(None, << >>, fr) : fr \in { "stop", "tool_calls" } }
    \cup { Choice(Some(Chr("a")), << Frag("t1", Some(Chr("f")), Chr("x")) >>, "stop"),
           Choice(None, << Frag("t1", Some(Chr("f")), << >>), Frag("", None, Chr("x")) >>, NoFinish) }

AccChunks ==
    { Chunk(<< >>) }
    \cup { Chunk(<< c >>) : c \in AccChoices }
    \cup { Chunk(<< Choice(Some(Chr("a")), << >>, NoFinish), Choice(Some(Chr("b")), << >>, NoFinish) >>) }

InitAcc ==
    /\ pc = "acc"
    /\ messages = << >>
    /\ initial_message_count = 0
    /\ model = "m"
    /\ api_base_url = "u"
    /\ processor = NewProcessor
    /\ response_metadata = 0
    /\ tool_index = 0
    /\ tool_messages = << >>
    /\ events = << >>
    /\ hist = NewHist
    /\ fed = << >>
    /\ acc_raised = FALSE
    /\ litellm = NewLitellm
    /\ mcp = NewMcp
    /\ tasks = << >>
    /\ runs = << >>

\* one iteration of the test loop; an exception ends it
AccFeed(c) ==
    /\ pc = "acc"
    /\ ~acc_raised
    /\ Len(fed) < MaxAccChunks
    /\ fed' = Append(fed, c)
    /\ processor' = process_chunk(processor, c).p
    /\ acc_raised' = process_chunk(processor, c).raised
    /\ UNCHANGED << pc, messages, initial_message_count, model, api_base_url,
                    response_metadata, tool_index, tool_messages, events, hist >>
    /\ UNCHANGED << litellm, runs, mcp, tasks >>

NextAcc == \E c \in AccChunks : AccFeed(c)

SpecAcc == InitAcc /\ [][NextAcc]_vars

(***************************************************************************)
(* Properties of a run (Spec)                                              *)
(***************************************************************************)
Last(q) == q[Len(q)]

\* the positions in the outward stream of the events of one type, and of the error events
EventsOfType(t) ==
    { i \in 1..Len(events) : events[i].kind = "json" /\ events[i].has_type /\ events[i].type = t }

ErrorEvents == { i \in 1..Len(events) : events[i].error }

\* the generator has returned, or an exception has left it
Finished == pc \in { "done", "raised" }

\* C1: every run ends its outward stream with the end-of-stream sentinel,
\* whatever failed, the listing of the tool catalog included: once the
\* generator is finished, the last thing it yielded is "data: [DONE]".
C1_EndsWithDone == Finished => (events # << >> /\ Last(events) = DoneEvent)

\* C2: when an exception is caught in a run, exactly one error event is
\* emitted (and none otherwise), the next event, once the run is over, is the
\* sentinel, and no provider request and no tool call is started after it.
C2_FailedRun ==
    /\ Cardinality(ErrorEvents) = (IF hist.failed THEN 1 ELSE 0)
    /\ hist.failed =>
         /\ pc \in { "end", "done" }
         /\ hist.requests = hist.at_fail[1]
         /\ hist.tool_calls = hist.at_fail[2]
         /\ IF pc = "end"
            THEN Last(events).error
            ELSE Last(events) = DoneEvent /\ events[Len(events) - 1].error

\* a run that failed in its second turn, after a tool had been called
C2_Witness == pc = "done" /\ hist.failed /\ hist.requests = 2 /\ hist.tool_calls > 0

EventTypes ==
    { "stream", "finish_reason", "tool_result", "sleep_seconds", "new_raw_llm_messages", "error" }

\* C3 as claimed: every event before the sentinel, the one of the failure
\* path included, carries a type that is one of the six.
C3_EveryEventTyped ==
    \A i \in 1..Len(events) :
        events[i].kind = "json" => (events[i].has_type /\ events[i].type \in EventTypes)

\* C3 as amended: every event before the sentinel that is not the failure
\* path's carries a type, one of stream, finish_reason, tool_result,
\* sleep_seconds, new_raw_llm_messages; the failure path's event carries no
\* type, only the "error" key.
C3_TypedUnlessError ==
    \A i \in 1..Len(events) :
        events[i].kind = "json" =>
            IF events[i].error
            THEN ~events[i].has_type /\ hist.failed
            ELSE events[i].has_type /\ events[i].type \in (EventTypes \ { "error" })

\* a failed run that had emitted stream, finish_reason, tool_result and sleep_seconds events
C3_Witness ==
    /\ pc = "done"
    /\ hist.failed
    /\ \A t \in { "stream", "finish_reason", "tool_result", "sleep_seconds" } :
           \E i \in 1..Len(events) : events[i].has_type /\ events[i].type = t

\* C4: at the end of a run, a turn that completed with finish reason
\* "tool_calls" was followed by tool dispatch and by another provider
\* request, and a turn that completed with any other finish reason was
\* followed by neither: the run Terminated there.
C4_DispatchIffToolCalls ==
    pc = "done" =>
        \A t \in 1..Len(hist.turn_finish) :
            IF hist.turn_finish[t] = "tool_calls"
            THEN t \in hist.dispatched /\ hist.requests > t
            ELSE t \notin hist.dispatched /\ hist.requests = t /\ ~hist.failed

\* C5 as claimed: the loop is bounded.  Whatever number of turns is taken
\* for the bound (here MaxTurns), a run never stands at the top of the loop,
\* about to issue one more provider request, after that many turns.
C5_LoopBounded == pc = "loop_top" => hist.requests < MaxTurns

\* C5 as amended: the loop has no bound of its own.  Its exits are the first
\* turn whose finish reason is not "tool_calls" (Terminated) and the first
\* caught exception (Failed); a provider request after the first is issued
\* only after a tool-dispatch turn, and after every tool-dispatch turn the run
\* is back at the top of the loop, however many turns it has taken.
C5_ExitsOnlyOnFinishOrFailure ==
    /\ hist.requests <= Len(hist.turn_finish) + 1
    /\ \A t \in 1..Len(hist.turn_finish) :
           IF hist.turn_finish[t] = "tool_calls"
           THEN t < hist.requests => t \in hist.dispatched
           ELSE hist.requests = t /\ pc \in { "final_sleep", "end", "done" }
    /\ hist.failed => pc \in { "end", "done" }
    /\ pc \in { "final_sleep", "end", "done" } =>
           \/ hist.failed
           \/ (hist.turn_finish # << >> /\ Last(hist.turn_finish) # "tool_calls")
    /\ (pc = "backoff" \/ pc = "sleep1" \/ pc = "sleep2" \/ (pc = "loop_top" /\ hist.requests > 0)) =>
           /\ Len(hist.turn_finish) = hist.requests
           /\ \A t \in 1..hist.requests : hist.turn_finish[t] = "tool_calls" /\ t \in hist.dispatched

\* the provider answered every request with "tool_calls" and the run stands before one more
C5_Witness ==
    /\ pc = "loop_top"
    /\ hist.requests = MaxTurns
    /\ \A t \in 1..MaxTurns : hist.turn_finish[t] = "tool_calls"

\* C6: between the provider request of a turn that finished with
\* "tool_calls" and the next provider request the Conversation grows by
\* exactly two messages: an assistant Message with tool_calls, then a tool Message.
C6_TwoMessagesPerToolTurn ==
    \A t \in 1..(Len(hist.request_len) - 1) :
        LET n == hist.request_len[t]
        IN  /\ hist.turn_finish[t] = "tool_calls"
            /\ hist.request_len[t + 1] = n + 2
            /\ messages[n + 1].role = "assistant"
            /\ messages[n + 1].has_tool_calls
            /\ messages[n + 1].tool_calls # << >>
            /\ messages[n + 2].role = "tool"

\* a second request after a turn that accumulated two ToolCalls
C6_Witness ==
    /\ Len(hist.request_len) >= 2
    /\ Len(messages[hist.request_len[1] + 1].tool_calls) >= 2

\* the text fragments of a chunk, of a chunk sequence, concatenated in arrival order
RECURSIVE TextOfChoices(_)
TextOfChoices(cs) ==
    IF cs = << >> THEN << >>
    ELSE SCat(IF Truthy(Head(cs).content) THEN Head(cs).content.v ELSE << >>,
              TextOfChoices(Tail(cs)))

RECURSIVE TextOfChunks(_)
TextOfChunks(q) ==
    IF q = << >> THEN << >>
    ELSE SCat(TextOfChoices(Head(q).choices), TextOfChunks(Tail(q)))

\* the tool-call fragments of a chunk, of a chunk sequence, in arrival order
RECURSIVE FragsOfChoices(_)
FragsOfChoices(cs) ==
    IF cs = << >> THEN << >> ELSE Head(cs).tool_calls \o FragsOfChoices(Tail(cs))

RECURSIVE FragsOfChunks(_)
FragsOfChunks(q) ==
    IF q = << >> THEN << >> ELSE FragsOfChoices(Head(q).choices) \o FragsOfChunks(Tail(q))

\* the chunk sequence ends with a chunk whose (last) choice carries the finish reason fr
EndsWithFinish(q, fr) ==
    /\ q # << >>
    /\ Last(q).choices # << >>
    /\ Last(Last(q).choices).finish_reason = fr

\* the first turn's stream ended normally, had no tool-call fragment and ended with "stop"
FirstTurnPlainStop ==
    /\ hist.streams_ended >= 1
    /\ FragsOfChunks(hist.turn_chunks[1]) = << >>
    /\ EndsWithFinish(hist.turn_chunks[1], "stop")

\* no tool_result event; one new_raw_llm_messages event, carrying exactly the
\* new assistant Message; the sentinel right after it
PlainStopOutcome ==
    /\ EventsOfType("tool_result") = { }
    /\ Cardinality(EventsOfType("new_raw_llm_messages")) = 1
    /\ \A i \in EventsOfType("new_raw_llm_messages") :
           /\ events[i].new_raw_llm_messages =
                  << Message("assistant", TextOfChunks(hist.turn_chunks[1]), << >>, "", None, FALSE) >>
           /\ i + 1 = Len(events)
           /\ events[i + 1] = DoneEvent
    /\ Len(messages) = initial_message_count + 1
    /\ Last(messages) = Message("assistant", TextOfChunks(hist.turn_chunks[1]), << >>, "", None, FALSE)

\* C7 as claimed: a run whose first turn has no tool-call fragment and ends
\* with finish reason "stop" emits no tool_result event, one
\* new_raw_llm_messages event with exactly the new assistant Message, and
\* then the sentinel.
C7_PlainStopRun == (pc = "done" /\ FirstTurnPlainStop) => PlainStopOutcome

\* C7 as amended: the same, for a run in which reading the response metadata
\* does not raise; when it raises, the run emits the error event and the
\* sentinel, no new_raw_llm_messages event and no tool_result event, and
\* appends nothing to the Conversation.
C7_PlainStopRunUnlessMetadataFails ==
    (pc = "done" /\ FirstTurnPlainStop) =>
        IF hist.failed
        THEN /\ EventsOfType("tool_result") = { }
             /\ EventsOfType("new_raw_llm_messages") = { }
             /\ Last(events) = DoneEvent
             /\ events[Len(events) - 1].error
             /\ Len(messages) = initial_message_count
        ELSE PlainStopOutcome

\* a plain run of two text chunks and a stop chunk, over a history with an old tool result
C7_Witness ==
    /\ pc = "done"
    /\ FirstTurnPlainStop
    /\ ~hist.failed
    /\ TextOfChunks(hist.turn_chunks[1]) = Rep("a", 2)
    /\ initial_message_count = 4

\* C8: every tool Message the run appended is immediately preceded by an
\* assistant Message whose tool_calls has an entry with the tool Message's tool_call_id.
C8_ToolMessageAnswersCall ==
    \A i \in (initial_message_count + 1)..Len(messages) :
        messages[i].role = "tool" =>
            /\ i - 1 > initial_message_count
            /\ messages[i - 1].role = "assistant"
            /\ messages[i - 1].has_tool_calls
            /\ \E k \in 1..Len(messages[i - 1].tool_calls) :
                   messages[i - 1].tool_calls[k].id = messages[i].tool_call_id

\* a tool Message appended after a turn that accumulated two ToolCalls with different ids
C8_Witness ==
    \E i \in (initial_message_count + 1)..Len(messages) :
        /\ messages[i].role = "tool"
        /\ Len(messages[i - 1].tool_calls) = 2
        /\ messages[i - 1].tool_calls[1].id # messages[i - 1].tool_calls[2].id

(***************************************************************************)
(* Properties of the accumulator (SpecAcc)                                 *)
(***************************************************************************)
\* the fragment types a chunk carries, among text, tool name, tool arguments
FragmentTypes(c) ==
    { ty \in { "text", "tool_name", "tool_args" } :
        \/ ty = "text" /\ \E i \in 1..Len(c.choices) : Truthy(c.choices[i].content)
        \/ ty = "tool_name" /\ \E i \in 1..Len(FragsOfChoices(c.choices)) :
                                   Truthy(FragsOfChoices(c.choices)[i].name)
        \/ ty = "tool_args" /\ \E i \in 1..Len(FragsOfChoices(c.choices)) :
                                   FragsOfChoices(c.choices)[i].arguments # << >> }

AtMostOneTypeEach(q) == \A i \in 1..Len(q) : Cardinality(FragmentTypes(q[i])) <= 1

\* C9: for a chunk sequence in which each chunk carries at most one fragment
\* type, processing raises no exception and the accumulated text (content,
\* and the content of get_assistant_message()) is the concatenation of the
\* text fragments in arrival order.
C9_TextIsConcatenation ==
    AtMostOneTypeEach(fed) =>
        /\ ~acc_raised
        /\ processor.content = TextOfChunks(fed)
        /\ get_assistant_message(processor).content = TextOfChunks(fed)

\* the name text of a ToolCall record or fragment: None contributes nothing
NameText(x) == IF x.name.some THEN x.name.v ELSE << >>

\* the ToolCall list the claim describes: one record per id-bearing fragment,
\* in order, each collecting the name and argument substrings up to the next
\* id-bearing fragment
RECURSIVE ExpectedToolCalls(_, _)
ExpectedToolCalls(acc, fs) ==
    IF fs = << >> THEN acc
    ELSE IF Head(fs).id # ""
    THEN ExpectedToolCalls(
             Append(acc, [id |-> Head(fs).id, name |-> NameText(Head(fs)),
                          arguments |-> Head(fs).arguments]),
             Tail(fs))
    ELSE ExpectedToolCalls(
             [acc EXCEPT ![Len(acc)].name = SCat(@, NameText(Head(fs))),
                         ![Len(acc)].arguments = SCat(@, Head(fs).arguments)],
             Tail(fs))

AccumulatedToolCalls ==
    [k \in 1..Len(processor.tool_calls) |->
        [id |-> processor.tool_calls[k].id, name |-> NameText(processor.tool_calls[k]),
         arguments |-> processor.tool_calls[k].arguments]]

\* C10: for a fragment sequence that begins with an id-bearing fragment,
\* processing raises no exception and the ToolCall list has one record per
\* id-bearing fragment, in order, with the concatenated name and argument text.
C10_ToolCallsAreConcatenation ==
    (FragsOfChunks(fed) # << >> /\ Head(FragsOfChunks(fed)).id # "") =>
        /\ ~acc_raised
        /\ AccumulatedToolCalls = ExpectedToolCalls(<< >>, FragsOfChunks(fed))

(***************************************************************************)
(* Properties of the chunk loop (Spec)                                     *)
(***************************************************************************)
\* a chunk the accumulator p cannot place: it has no choices, or its first
\* tool-call fragment has no id while no ToolCall is open in p
Malformed(p, c) ==
    \/ c.choices = << >>
    \/ /\ p.tool_calls = << >>
       /\ FragsOfChoices(c.choices) # << >>
       /\ Head(FragsOfChoices(c.choices)).id = ""

\* the step delivers one more chunk of the current turn to the chunk loop
ChunkDelivered == pc = "streaming" /\ hist'.chunks = hist.chunks + 1

\* C11: a malformed chunk is skipped.  The step that delivers it leaves the
\* accumulated text, ToolCall list and finish reason as they were, emits no
\* error event, and leaves the run in the chunk loop, ready for the next chunk.
C11_MalformedChunkSkipped ==
    [][(ChunkDelivered /\ Malformed(processor, Last(Last(hist'.turn_chunks)))) =>
           /\ processor'.content = processor.content
           /\ processor'.tool_calls = processor.tool_calls
           /\ processor'.finish_reason = processor.finish_reason
           /\ \A i \in 1..Len(events') : ~events'[i].error
           /\ ~hist'.failed
           /\ pc' \in { "streaming", "finish_event" }]_vars

\* C12: within one provider turn the accumulator's finish reason, once set,
\* is not changed by a later chunk of the turn, whatever that chunk carries.
C12_FinishReasonSticks ==
    [][(ChunkDelivered /\ processor.finish_reason # NoFinish) =>
           processor'.finish_reason = processor.finish_reason]_vars

(***************************************************************************)
(* Properties of process_chunk (SpecAcc)                                   *)
(***************************************************************************)
\* the kinds of fragment the dict returned by process_chunk reports
ReportedKinds(sc) == { k \in { "content", "tool_name", "tool_args" } : Truthy(sc[k]) }

\* C13: the value process_chunk returns for a chunk carries at most one of
\* text fragment, tool-name fragment, tool-argument fragment, and for a chunk
\* with a non-empty text delta the text fragment is the only one it carries.
\* Stated of every chunk the accumulator may be fed next, in every state it reaches.
C13_OneFragmentKindPerChunk ==
    ~acc_raised =>
        \A c \in AccChunks :
            LET r == process_chunk(processor, c)
            IN  ~r.raised =>
                    /\ Cardinality(ReportedKinds(r.sc)) <= 1
                    /\ TextOfChoices(c.choices) # << >> => ReportedKinds(r.sc) = { "content" }

\* C14: of a chunk with more than one choice only the first choice counts.
\* After process_chunk the accumulated text, the ToolCall list, the finish
\* reason and the reported fragments are those the chunk reduced to its first
\* choice would have given.  Stated of every chunk the accumulator may be fed
\* next, in every state it reaches.
C14_OnlyFirstChoiceCounts ==
    ~acc_raised =>
        \A c \in AccChunks :
            Len(c.choices) > 1 =>
                LET all == process_chunk(processor, c)
                    first == process_chunk(processor, Chunk(<< Head(c.choices) >>))
                IN  /\ all.raised = first.raised
                    /\ ~all.raised =>
                           /\ all.p.content = first.p.content
                           /\ all.p.tool_calls = first.p.tool_calls
                           /\ all.p.finish_reason = first.p.finish_reason
                           /\ all.sc = first.sc

(***************************************************************************)
(* Properties of a turn's events and messages (Spec)                       *)
(***************************************************************************)
\* the finish_reason events of the outward stream, in the order of emission
FinishReasonEvents ==
    SelectSeq(events, LAMBDA e : e.kind = "json" /\ e.has_type /\ e.type = "finish_reason")

\* the finish reasons of the completed turns in which one was observed, in turn order
ObservedFinishReasons == SelectSeq(hist.turn_finish, LAMBDA fr : fr # NoFinish)

\* no turn is under way, and none was cut short by an exception
BetweenTurns == pc \notin { "streaming", "finish_event" } /\ ~hist.failed

\* C15: for every provider turn in which a finish reason is observed exactly
\* one finish_reason event is emitted, carrying that finish reason, chunks
\* that arrive after the one with the finish reason notwithstanding: between
\* turns, the finish_reason events are, one for one and in order, the finish
\* reasons of the turns completed so far.
C15_OneFinishEventPerTurn ==
    BetweenTurns =>
        /\ Len(FinishReasonEvents) = Len(ObservedFinishReasons)
        /\ \A k \in 1..Len(FinishReasonEvents) :
               FinishReasonEvents[k].finish_reason = ObservedFinishReasons[k]

\* the assistant Message appended for the completed turn t
TurnAssistantMessage(t) == messages[hist.request_len[t] + 1]

\* C16: the ToolCall list of a turn is exposed only when the turn's finish
\* reason is "tool_calls": the assistant Message appended for a turn has a
\* tool_calls field only if the turn finished with "tool_calls".
C16_ToolCallsOnlyOnToolCallsFinish ==
    \A t \in 1..Len(hist.turn_finish) :
        /\ TurnAssistantMessage(t).role = "assistant"
        /\ TurnAssistantMessage(t).has_tool_calls => hist.turn_finish[t] = "tool_calls"

\* the ToolCalls, by position in hist.calls, whose invocation raised or whose arguments did not parse
FailedCalls == { j \in 1..Len(hist.calls) : hist.calls[j].outcome \in { "raised", "unparsed" } }

\* a tool Message that reports a failure: the error description, and the error flag
IsErrorToolMessage(m) ==
    /\ m.role = "tool"
    /\ m.is_error
    /\ STake(m.content, SLen(ErrorExecutingTool)) = ErrorExecutingTool

\* the exception that ended the run was raised in the dispatch of turn t: the
\* turn's assistant Message was appended and no request was issued after it
FailedInDispatch(t) == hist.failed /\ Len(hist.turn_finish) = hist.requests /\ hist.requests = t

\* C17: a tool invocation that raises, or argument text that does not parse,
\* does not fail the run.  A tool Message with the error description and
\* is_error = TRUE is appended to the dispatch's list of tool Messages, at the
\* ToolCall's position (and to the Conversation when the ToolCall is the
\* turn's first); no exception ends the run in that dispatch, so that no
\* error event comes of it and the run goes on to the next provider request;
\* and mcp.call_tool is invoked exactly for the ToolCalls whose arguments parsed.
C17_ToolFailureAbsorbed ==
    /\ \A j \in FailedCalls :
           LET c == hist.calls[j]
           IN  /\ ~FailedInDispatch(c.turn)
               /\ c.turn = Len(hist.turn_finish) =>
                      /\ Len(tool_messages) >= c.index
                      /\ IsErrorToolMessage(tool_messages[c.index])
               /\ (c.index = 1 /\ c.turn \in hist.dispatched) =>
                      IsErrorToolMessage(messages[hist.request_len[c.turn] + 2])
    /\ hist.tool_calls =
           Cardinality({ j \in 1..Len(hist.calls) : hist.calls[j].outcome # "unparsed" })

\* a second provider request issued after a dispatch in which the first
\* ToolCall's arguments did not parse and the second ToolCall's invocation raised
C17_Witness ==
    /\ hist.requests = 2
    /\ \E i, j \in FailedCalls :
           /\ hist.calls[i].turn = 1 /\ hist.calls[i].index = 1 /\ hist.calls[i].outcome = "unparsed"
           /\ hist.calls[j].turn = 1 /\ hist.calls[j].index = 2 /\ hist.calls[j].outcome = "raised"

\* C18: in a turn that materializes more than one ToolCall only the first is
\* driven to execution: mcp.call_tool is invoked for the first-opened
\* ToolCall of a turn and for no other ToolCall of it.
C18_OnlyFirstToolCallInvoked ==
    \A j \in 1..Len(hist.calls) :
        hist.calls[j].outcome # "unparsed" => hist.calls[j].index = 1

\* the completed turns whose finish reason is "tool_calls": the tool-dispatch turns
ToolCallsTurns == { t \in 1..Len(hist.turn_finish) : hist.turn_finish[t] = "tool_calls" }

\* the dispatch of the completed turn t is over
DispatchOver(t) == t < Len(hist.turn_finish) \/ pc \notin { "dispatch", "tool_call" }

\* the last turn's dispatch has appended its tool Message and the next request is not yet issued
AfterDispatch ==
    pc \in { "backoff", "sleep1", "sleep2" } \/ (pc = "loop_top" /\ hist.requests > 0)

\* the tool_result event emitted last
LastToolResultEvent ==
    events[CHOOSE i \in EventsOfType("tool_result") :
               \A k \in EventsOfType("tool_result") : k <= i]

\* the events of every dispatch that emitted one, and the Message of the last one
ToolResultReportsFirstCall ==
    /\ Cardinality(EventsOfType("tool_result")) = Cardinality(hist.dispatched)
    /\ AfterDispatch =>
           /\ Len(hist.turn_finish) \in hist.dispatched
           /\ Last(messages).role = "tool"
           /\ Last(messages).tool_call_id = processor.tool_calls[1].id
           /\ Last(messages) = tool_messages[1]
           /\ LastToolResultEvent.tool_result = Some(Last(messages).content)

\* C19: every tool-dispatch turn emits exactly one tool_result event, whose
\* tool_result value is the content of the tool Message the turn appended to
\* the Conversation, the result of the first-opened ToolCall: once its
\* dispatch is over, every turn that finished with "tool_calls" has appended
\* and reported; there are as many tool_result events as such turns; and the
\* value reported last is that of the Message appended last, which carries
\* the id of the turn's first ToolCall.
C19_OneToolResultPerDispatchTurn ==
    /\ \A t \in ToolCallsTurns : DispatchOver(t) => t \in hist.dispatched
    /\ ToolResultReportsFirstCall

\* the turn whose dispatch produced tool_messages: the last that finished with "tool_calls"
LastDispatchTurn == CHOOSE t \in ToolCallsTurns : \A u \in ToolCallsTurns : u <= t

\* the positions in hist.calls of the invocations that have not returned
InFlight == { j \in 1..Len(hist.calls) : hist.calls[j].outcome = "in_flight" }

\* C20: tool execution is sequential.  At most one invocation is in flight,
\* and it is the one started last; the ToolCalls of a turn are taken up, and
\* so invoked, in the order in which they were opened, one after the other
\* has returned or raised; and the tool Messages of a dispatch are in that
\* order too, the k-th with the tool_call_id and the name of the turn's k-th ToolCall.
C20_SequentialToolExecution ==
    /\ Cardinality(InFlight) <= 1
    /\ \A j \in InFlight : j = Len(hist.calls) /\ pc = "tool_call"
    /\ \A j \in 1..Len(hist.calls) :
           /\ hist.calls[j].turn \in ToolCallsTurns
           /\ hist.calls[j].index \in 1..Len(TurnAssistantMessage(hist.calls[j].turn).tool_calls)
           /\ IF j > 1 /\ hist.calls[j - 1].turn = hist.calls[j].turn
              THEN hist.calls[j].index = hist.calls[j - 1].index + 1
              ELSE /\ hist.calls[j].index = 1
                   /\ j > 1 => hist.calls[j - 1].turn < hist.calls[j].turn
    /\ ToolCallsTurns # { } =>
           /\ Len(tool_messages) =
                  Cardinality({ j \in 1..Len(hist.calls) :
                                    /\ hist.calls[j].turn = LastDispatchTurn
                                    /\ hist.calls[j].outcome # "in_flight" })
           /\ \A k \in 1..Len(tool_messages) :
                  /\ tool_messages[k].role = "tool"
                  /\ tool_messages[k].tool_call_id =
                         TurnAssistantMessage(LastDispatchTurn).tool_calls[k].id
                  /\ tool_messages[k].name =
                         TurnAssistantMessage(LastDispatchTurn).tool_calls[k].name

\* a dispatch that invoked two ToolCalls with different ids, one after the
\* other, and has the two tool Messages
C20_Witness ==
    /\ Len(tool_messages) = 2
    /\ tool_messages[1].tool_call_id # tool_messages[2].tool_call_id
    /\ Len(hist.calls) = 2
    /\ hist.calls[1].outcome \in { "returned", "raised" }
    /\ hist.calls[2].outcome \in { "returned", "raised" }

(***************************************************************************)
(* Properties of the Backoff step (Spec)                                   *)
(***************************************************************************)
\* the sleep_seconds events emitted since the last tool_result event: those of the last Backoff
BackoffSleepEvents ==
    { i \in EventsOfType("sleep_seconds") : \A k \in EventsOfType("tool_result") : k < i }

\* C21: the Backoff step after a tool-dispatch turn emits exactly one
\* sleep_seconds event, carrying the policy's value, and suspends exactly
\* once when that value is positive, and emits none and does not suspend
\* otherwise: back at the top of the loop, the events of the last Backoff are
\* one or none accordingly, and the run has suspended once per sleep_seconds event.
C21_OneSleepPerBackoff ==
    (pc = "loop_top" /\ hist.requests > 0) =>
        /\ IF response_metadata > 0
           THEN /\ Cardinality(BackoffSleepEvents) = 1
                /\ \A i \in BackoffSleepEvents : events[i].sleep_seconds = response_metadata
           ELSE BackoffSleepEvents = { }
        /\ hist.sleeps = Cardinality(EventsOfType("sleep_seconds"))

(***************************************************************************)
(* get_response_metadata_from_headers on its own (SpecMeta)                *)
(***************************************************************************)
\* a dimension at the 10% mark (low) or just above it, with a reset 30 or 60
\* seconds away or one that is no timestamp
MetaDims ==
    { Dim(100, r, rs) : r \in { 10, 11 }, rs \in { Reset(TRUE, 30), Reset(TRUE, 60), Reset(FALSE, 0) } }

MetaHeaders ==
    { Headers(p, it, ot, rq) : p \in BOOLEAN, it \in MetaDims, ot \in MetaDims, rq \in MetaDims }

InitMeta ==
    /\ pc = "meta"
    /\ messages = << >>
    /\ initial_message_count = 0
    /\ model = "m"
    /\ api_base_url = "u"
    /\ processor = NewProcessor
    /\ response_metadata = 0
    /\ tool_index = 0
    /\ tool_messages = << >>
    /\ events = << >>
    /\ hist = NewHist
    /\ fed \in { << h >> : h \in MetaHeaders }
    /\ acc_raised = FALSE
    /\ litellm = NewLitellm
    /\ mcp = NewMcp
    /\ tasks = << >>
    /\ runs = << >>

\* one call of get_response_metadata_from_headers on the headers
ReadMetadata ==
    /\ pc = "meta"
    /\ response_metadata' = get_response_metadata_from_headers(fed[1]).sleep_seconds
    /\ acc_raised' = get_response_metadata_from_headers(fed[1]).raised
    /\ pc' = "meta_read"
    /\ UNCHANGED << messages, initial_message_count, model, api_base_url, processor,
                    tool_index, tool_messages, events, hist, fed >>
    /\ UNCHANGED << litellm, runs, mcp, tasks >>

NextMeta == ReadMetadata

SpecMeta == InitMeta /\ [][NextMeta]_vars

\* the dimensions of the headers in the order input tokens, output tokens, requests
DimsInOrder(h) == << h.input_tokens, h.output_tokens, h.requests >>

\* the positions of the dimensions whose remaining is at most 0.10 * limit
LowDims(h) == { i \in 1..3 : 10 * DimsInOrder(h)[i].remaining <= DimsInOrder(h)[i].limit }

FirstLowDim(h) == DimsInOrder(h)[CHOOSE i \in LowDims(h) : \A k \in LowDims(h) : i <= k]

\* C22: the sleep_seconds returned is reset - now of the first low dimension
\* in the order input tokens, output tokens, requests, whatever the resets of
\* the later low dimensions; it is 0 when no dimension is low and when the
\* rate-limit headers are absent.  (When the first low dimension's reset is
\* no timestamp the call raises and returns nothing.)
C22_SleepIsFirstLowReset ==
    pc = "meta_read" =>
        IF ~fed[1].present \/ LowDims(fed[1]) = { }
        THEN ~acc_raised /\ response_metadata = 0
        ELSE IF FirstLowDim(fed[1]).reset.ok
        THEN ~acc_raised /\ response_metadata = FirstLowDim(fed[1]).reset.secs
        ELSE acc_raised

\* input tokens not low; output tokens low, reset in 30 s; requests low, reset in 60 s: 30 is returned
C22_Witness ==
    /\ pc = "meta_read"
    /\ fed[1].present
    /\ LowDims(fed[1]) = { 2, 3 }
    /\ fed[1].output_tokens.reset = Reset(TRUE, 30)
    /\ fed[1].requests.reset = Reset(TRUE, 60)
    /\ response_metadata = 30

\* C23: the exhaustion of the provider's quota is never fatal to the run: a
\* provider call refused for it leads to no error event and does not end the run.
C23_RateLimitNotFatal == hist.rate_limited => (~hist.failed /\ ErrorEvents = { })

(***************************************************************************)
(* clean_up_tool_results_inline on its own (SpecClean)                     *)
(***************************************************************************)
\* the messages of the Conversations it is applied to: tool Messages at the
\* threshold, one over it, well over it (in two kinds of characters) and
\* already truncated; a long assistant Message; a short user Message
CleanMessages ==
    { Message("tool", Rep("r", TruncateLimit), << >>, "t0", Some(Chr("f")), FALSE),
      Message("tool", Rep("r", TruncateLimit + 1), << >>, "t0", Some(Chr("f")), FALSE),
      Message("tool", SCat(Rep("r", 4000), Rep("x", 2000)), << >>, "t0", Some(Chr("f")), TRUE),
      Message("tool", SCat(Rep("r", TruncateLimit), TruncateMsg), << >>, "t0", Some(Chr("f")), FALSE),
      Message("assistant", Rep("a", 6000), << >>, "", None, FALSE),
      UserMessage }

CleanConversations == UNION { [1..n -> CleanMessages] : n \in 0..MaxCleanLen }

InitClean ==
    /\ pc = "clean"
    /\ messages \in CleanConversations
    /\ initial_message_count = Len(messages)
    /\ model = "m"
    /\ api_base_url = "u"
    /\ processor = NewProcessor
    /\ response_metadata = 0
    /\ tool_index = 0
    /\ tool_messages = << >>
    /\ events = << >>
    /\ hist = NewHist
    /\ fed = << messages >>
    /\ acc_raised = FALSE
    /\ litellm = NewLitellm
    /\ mcp = NewMcp
    /\ tasks = << >>
    /\ runs = << >>

\* one application of clean_up_tool_results_inline to the Conversation
CleanUp ==
    /\ pc = "clean"
    /\ Len(fed) <= MaxCleanUps
    /\ messages' = clean_up_tool_results_inline(messages)
    /\ fed' = Append(fed, messages')
    /\ UNCHANGED << pc, initial_message_count, model, api_base_url, processor,
                    response_metadata, tool_index, tool_messages, events, hist, acc_raised >>
    /\ UNCHANGED << litellm, runs, mcp, tasks >>

NextClean == CleanUp

SpecClean == InitClean /\ [][NextClean]_vars

\* C24: clean_up_tool_results_inline is idempotent: a second application in
\* a row, and every later one, leaves the messages the first one produced,
\* with their contents, roles and order.
C24_CleanUpIdempotent ==
    /\ messages = Last(fed)
    /\ \A k \in 2..(Len(fed) - 1) : fed[k + 1] = fed[k]

\* two applications to a Conversation whose first Message the first application truncated
C24_Witness ==
    /\ Len(fed) = 3
    /\ Len(fed[1]) >= 2
    /\ fed[2][1] # fed[1][1]
    /\ SLen(fed[1][1].content) = 6000

\* the message at position i of the Conversation q is one the claim names: a
\* tool Message, not the last, with content longer than the threshold
ToBeTruncated(q, i) ==
    q[i].role = "tool" /\ i < Len(q) /\ SLen(q[i].content) > TruncateLimit

\* C25: one application of clean_up_tool_results_inline leaves the number
\* and order of the messages; a tool Message that is not the last and whose
\* content is longer than 5000 characters gets the first 5000 characters of
\* its content followed by the truncation marker, and nothing else of it
\* changes; every other message, the last one whatever its role and size
\* included, is left as it was.
C25_TruncatesLongToolMessagesButLast ==
    \A k \in 1..(Len(fed) - 1) :
        /\ Len(fed[k + 1]) = Len(fed[k])
        /\ \A i \in 1..Len(fed[k]) :
               IF ToBeTruncated(fed[k], i)
               THEN fed[k + 1][i] =
                        [fed[k][i] EXCEPT !.content = SCat(STake(@, TruncateLimit), TruncateMsg)]
               ELSE fed[k + 1][i] = fed[k][i]

\* an application to a Conversation of two 6000-character tool Messages: the
\* first is cut to 5061 characters, the last is untouched
C25_Witness ==
    /\ Len(fed) >= 2
    /\ Len(fed[1]) = 2
    /\ fed[1][1] = fed[1][2]
    /\ fed[1][1].role = "tool"
    /\ SLen(fed[1][1].content) = 6000
    /\ SLen(fed[2][1].content) = TruncateLimit + SLen(TruncateMsg)
    /\ fed[2][2] = fed[1][2]

\* C26 as claimed: after an application, the content of every truncated tool
\* Message (every tool Message but the last) is at or under the threshold, so
\* that the next application finds none over it.
C26_TruncatedContentWithinLimit ==
    Len(fed) >= 2 =>
        \A i \in 1..(Len(messages) - 1) :
            messages[i].role = "tool" => SLen(messages[i].content) <= TruncateLimit

\* C26 as amended: after an application, the content of every tool Message
\* but the last is at most the threshold plus the marker, 5061 characters; a
\* truncated Message is over the threshold, and the next application rewrites
\* it, with the content it has: its first 5000 characters and the marker.
C26_TruncatedContentWithinLimitAndMarker ==
    Len(fed) >= 2 =>
        \A i \in 1..(Len(messages) - 1) :
            messages[i].role = "tool" =>
                /\ SLen(messages[i].content) <= TruncateLimit + SLen(TruncateMsg)
                /\ SLen(messages[i].content) > TruncateLimit =>
                       /\ SLen(messages[i].content) = TruncateLimit + SLen(TruncateMsg)
                       /\ messages[i].content =
                              SCat(STake(messages[i].content, TruncateLimit), TruncateMsg)

\* a second application to a Conversation whose first Message the first
\* application had truncated, to 5061 characters
C26_Witness ==
    /\ Len(fed) = 3
    /\ Len(fed[2]) >= 2
    /\ fed[2][1].role = "tool"
    /\ SLen(fed[1][1].content) = TruncateLimit + 1
    /\ SLen(fed[2][1].content) = TruncateLimit + SLen(TruncateMsg)
    /\ fed[3][1] = fed[2][1]

(***************************************************************************)
(* Properties of the Conversation (Spec)                                   *)
(***************************************************************************)
\* the run is Terminated: its last turn finished with no dispatch to follow
Terminated == pc \in { "final_sleep", "end", "done" } /\ ~hist.failed

\* C27: a run that reaches Terminated emits the new_raw_llm_messages event,
\* once, and it carries, in Conversation order, every Message appended since
\* the run began, as the Conversation has it: one assistant Message per turn
\* and one tool Message per dispatch, and none of the input's Messages.  No
\* other run emits the event.
C27_NewMessagesAreTheRunsMessages ==
    /\ Cardinality(EventsOfType("new_raw_llm_messages")) = (IF Terminated THEN 1 ELSE 0)
    /\ \A i \in EventsOfType("new_raw_llm_messages") :
           LET new == events[i].new_raw_llm_messages
           IN  /\ Len(new) = Len(messages) - initial_message_count
               /\ Len(new) = Len(hist.turn_finish) + Cardinality(hist.dispatched)
               /\ \A k \in 1..Len(new) :
                      /\ new[k] = messages[initial_message_count + k]
                      /\ new[k].role \in { "assistant", "tool" }

\* a run of two turns over an input of four Messages: the event carries the
\* first turn's assistant and tool Message, the latter truncated, and the
\* second turn's assistant Message
C27_Witness ==
    /\ pc = "done"
    /\ Terminated
    /\ initial_message_count = 4
    /\ \E i \in EventsOfType("new_raw_llm_messages") :
           /\ Len(events[i].new_raw_llm_messages) = 3
           /\ events[i].new_raw_llm_messages[2].role = "tool"
           /\ SLen(events[i].new_raw_llm_messages[2].content) = TruncateLimit + SLen(TruncateMsg)

(***************************************************************************)
(* Concurrent calls of stream_llm_response, one per orchestration run, on  *)
(* the one litellm module of the process.  Each call validates its         *)
(* arguments, writes the module's globals with configure_llm and then      *)
(* calls litellm.acompletion without api_key or api_base arguments, so the *)
(* provider call takes them from the globals as they are when it reads     *)
(* them: in the same step as the write, or after other calls have run.     *)
(***************************************************************************)

MaxRuns == 2

CfgKeys == { "", "k1", "k2" }

CfgBaseUrls == { "", "u1", "u2" }

\* a call not yet started, with its own api_key and api_base_url arguments
CfgRun(k, u) == [pc |-> "start", api_key |-> k, api_base_url |-> u, used |-> None]

InitCfg ==
    /\ pc = "cfg"
    /\ messages = << >>
    /\ initial_message_count = 0
    /\ model = "m"
    /\ api_base_url = "u"
    /\ processor = NewProcessor
    /\ response_metadata = 0
    /\ tool_index = 0
    /\ tool_messages = << >>
    /\ events = << >>
    /\ hist = NewHist
    /\ fed = << >>
    /\ acc_raised = FALSE
    /\ litellm = NewLitellm
    /\ mcp = NewMcp
    /\ tasks = << >>
    /\ runs \in [1..MaxRuns -> { CfgRun(k, u) : k \in CfgKeys, u \in CfgBaseUrls }]

UnchangedRun ==
    UNCHANGED << pc, messages, initial_message_count, model, api_base_url, processor,
                 response_metadata, tool_index, tool_messages, events, hist, fed,
                 acc_raised, mcp, tasks >>

\* llm_handler.py 46-47: the call raises ValueError before configure_llm
CfgRejected(r) ==
    /\ runs[r].pc = "start"
    /\ runs[r].api_base_url = ""
    /\ runs' = [runs EXCEPT ![r].pc = "raised"]
    /\ UNCHANGED litellm
    /\ UnchangedRun

\* llm_handler.py 50-53: configure_llm writes the globals, acompletion is called
Configure(r) ==
    /\ runs[r].pc = "start"
    /\ runs[r].api_base_url # ""
    /\ litellm' = configure_llm(litellm, runs[r].api_key, runs[r].api_base_url)
    /\ runs' = [runs EXCEPT ![r].pc = "calling"]
    /\ UnchangedRun

\* llm_handler.py 53-55: the provider call is made with the globals' key and base URL
ProviderCall(r) ==
    /\ runs[r].pc = "calling"
    /\ runs' = [runs EXCEPT ![r].pc = "called",
                            ![r].used = Some([api_key |-> litellm.api_key,
                                              api_base |-> litellm.api_base])]
    /\ UNCHANGED litellm
    /\ UnchangedRun

NextCfg ==
    \/ \E r \in DOMAIN runs : CfgRejected(r)
    \/ \E r \in DOMAIN runs : Configure(r)
    \/ \E r \in DOMAIN runs : ProviderCall(r)

SpecCfg == InitCfg /\ [][NextCfg]_vars

\* C28: under every interleaving of the concurrent runs, the key and the base
\* URL a run's provider call is made with are the ones of that run's own
\* request, never those another run wrote.
C28_RunUsesOwnCredentials ==
    \A r \in DOMAIN runs :
        runs[r].used.some =>
            runs[r].used.v = [api_key |-> runs[r].api_key,
                              api_base |-> runs[r].api_base_url]

(***************************************************************************)
(* SpecCancel: a run that the caller may cancel.  The consumer of the      *)
(* generator disconnects or its task is cancelled while the run is         *)
(* suspended: CancelledError is raised at the await (the next chunk,       *)
(* server.py 117; the tool result, stream_processor.py 113; asyncio.sleep, *)
(* server.py 176, 189, 205).  It is a BaseException: neither the except    *)
(* Exception of the dispatch (stream_processor.py 126) nor the one of the  *)
(* loop body (server.py 207) catches it, there is no finally, and the      *)
(* generator ends without reaching server.py 215.                          *)
(***************************************************************************)
Sleeping == pc \in { "sleep1", "sleep2" } \/ (pc = "final_sleep" /\ response_metadata > 0)

\* the cancellation taken for a failure of the loop body
CancelBug ==
    /\ pc \in { "streaming", "tool_call" } \/ Sleeping
    /\ Fail
    /\ hist' = [hist EXCEPT !.cancelled = TRUE,
                            !.sleeps = IF Sleeping THEN @ + 1 ELSE @]
    /\ UNCHANGED << messages, initial_message_count, model, api_base_url, processor,
                    response_metadata, tool_index, tool_messages, fed, acc_raised >>
    /\ UNCHANGED << litellm, runs, mcp, tasks >>

Cancel ==
    /\ pc \in { "streaming", "tool_call" } \/ Sleeping
    /\ pc' = "cancelled"
    /\ hist' = [hist EXCEPT !.cancelled = TRUE,
                            !.sleeps = IF Sleeping THEN @ + 1 ELSE @]
    /\ UNCHANGED << messages, initial_message_count, model, api_base_url, processor,
                    response_metadata, tool_index, tool_messages, events, fed, acc_raised >>
    /\ UNCHANGED << litellm, runs, mcp, tasks >>

NextCancel ==
    \/ Next
    \/ Cancel

SpecCancel == Init /\ [][NextCancel]_vars

\* C29: once a run is cancelled at a suspension point (awaiting the next
\* chunk, awaiting a tool result, in a backoff sleep), no step of it emits an
\* outward event, issues a provider request or starts a tool execution: the
\* cancelling step does not, and no step follows it.
C29_NothingAfterCancellation ==
    [][hist'.cancelled =>
          /\ events' = events
          /\ hist'.requests = hist.requests
          /\ hist'.tool_calls = hist.tool_calls]_vars

\* a run cancelled while its tool call was in flight, after events were emitted
C29_Witness ==
    /\ hist.cancelled
    /\ pc = "cancelled"
    /\ hist.calls # << >>
    /\ hist.calls[Len(hist.calls)].outcome = "in_flight"
    /\ Len(events) > 0
    /\ events[Len(events)] # DoneEvent

\* the History Hygiene truncation of a tool Message: the content cut to
\* TruncateLimit characters with the marker after it, everything else as it was
TruncationOf(old, new) ==
    /\ old.role = "tool"
    /\ SLen(old.content) > TruncateLimit
    /\ new = [old EXCEPT !.content = SCat(STake(old.content, TruncateLimit), TruncateMsg)]

\* C30: during a run the Conversation is append-only: no step makes it
\* shorter, every Message in it keeps its position, role, tool_call_id and
\* tool_calls, and a step that changes a Message in it leaves the truncated
\* content of a tool Message and nothing else.
C30_ConversationAppendOnly ==
    [][/\ Len(messages') >= Len(messages)
       /\ \A i \in 1..Len(messages) :
              /\ messages'[i].role = messages[i].role
              /\ messages'[i].tool_call_id = messages[i].tool_call_id
              /\ messages'[i].tool_calls = messages[i].tool_calls
              /\ \/ messages'[i] = messages[i]
                 \/ TruncationOf(messages[i], messages'[i])]_vars

\* the run appended an assistant Message, a tool Message and an assistant
\* Message to a Conversation of four, and the tool Message was truncated in place
C30_Witness ==
    /\ pc = "done"
    /\ ~hist.failed
    /\ initial_message_count = 4
    /\ Len(messages) = 7
    /\ messages[5].role = "assistant"
    /\ messages[6].role = "tool"
    /\ SLen(messages[6].content) = TruncateLimit + SLen(TruncateMsg)
    /\ \E i \in 1..Len(events) : events[i] = ToolResultEvent(Rep("r", 6000))

\* every tool Message of q but the last Message is within the truncated length
ToolMessagesWithinLimit(q) ==
    \A i \in 1..(Len(q) - 1) :
        q[i].role = "tool" => SLen(q[i].content) <= TruncateLimit + SLen(TruncateMsg)

\* the step issues a provider request
ProviderRequested == hist'.requests = hist.requests + 1

\* the step emits the new_raw_llm_messages event
NewMessagesEmitted ==
    /\ Len(events') = Len(events) + 1
    /\ events'[Len(events')].kind = "json"
    /\ events'[Len(events')].has_type
    /\ events'[Len(events')].type = "new_raw_llm_messages"

\* C31: at every provider request of a run, and when the new_raw_llm_messages
\* event is emitted, every tool Message of the Conversation other than the
\* last Message has content of at most 5000 characters plus the marker.
C31_HygieneBeforeRequestAndReport ==
    [][(ProviderRequested \/ NewMessagesEmitted) => ToolMessagesWithinLimit(messages')]_vars

\* the second request of a run: the caller's old tool result is truncated, the
\* result of the run's own tool call, the last Message, is whole
C31_Witness ==
    /\ pc = "streaming"
    /\ hist.requests = 2
    /\ Len(messages) = 6
    /\ messages[4].role = "tool"
    /\ SLen(messages[4].content) = TruncateLimit + SLen(TruncateMsg)
    /\ messages[6].role = "tool"
    /\ SLen(messages[6].content) = 6000

\* C32: a stream event is emitted for the chunks whose delta carries
\* something and for no other chunk: every stream event emitted has at least
\* one of content, tool_name, tool_args that is not null.
C32_StreamEventsAreNonEmpty ==
    \A i \in EventsOfType("stream") :
        events[i].content.some \/ events[i].tool_name.some \/ events[i].tool_args.some

\* the place of an event type in the order of a turn's events
TurnRank(t) ==
    CASE t = "stream" -> 1
      [] t = "finish_reason" -> 2
      [] t = "tool_result" -> 3
      [] t = "sleep_seconds" -> 4
      [] OTHER -> 0

\* the events at i and i + 1 are both events of a turn
TurnEventsAt(i) ==
    /\ events[i].kind = "json" /\ events[i].has_type /\ TurnRank(events[i].type) > 0
    /\ events[i + 1].kind = "json" /\ events[i + 1].has_type /\ TurnRank(events[i + 1].type) > 0

\* the event at i + 1 is the first of the turn after a tool-dispatch turn
NextTurnBeginsAfter(i) ==
    /\ events[i].type \in { "tool_result", "sleep_seconds" }
    /\ events[i + 1].type = "stream"

\* the tool Messages the run has appended
AppendedToolMessagePositions ==
    { i \in (initial_message_count + 1)..Len(messages) : messages[i].role = "tool" }

\* C33: the sentinel is emitted at most once and nothing is emitted after
\* it; within one turn the events come in the order stream events,
\* finish_reason, tool_result, sleep_seconds; and a tool_result event is
\* emitted only once the turn's assistant Message and tool Message are in the
\* Conversation.
C33_EventOrder ==
    /\ \A i \in 1..Len(events) : events[i] = DoneEvent => i = Len(events)
    /\ \A i \in 1..(Len(events) - 1) :
           TurnEventsAt(i) =>
               \/ TurnRank(events[i].type) <= TurnRank(events[i + 1].type)
               \/ NextTurnBeginsAfter(i)
    /\ Cardinality(EventsOfType("tool_result")) <= Cardinality(AppendedToolMessagePositions)
    /\ \A i \in AppendedToolMessagePositions :
           i - 1 > initial_message_count /\ messages[i - 1].role = "assistant"

\* C34: every Message appended to the Conversation during a run is reported
\* in a new_raw_llm_messages event before the sentinel, also when the run
\* fails after tool-dispatch turns: once the sentinel is out, an event
\* before it carries every Message the run appended.
C34_AppendedMessagesReported ==
    (pc = "done" /\ Len(messages) > initial_message_count) =>
        \E i \in EventsOfType("new_raw_llm_messages") :
            /\ i < Len(events)
            /\ Len(events[i].new_raw_llm_messages) = Len(messages) - initial_message_count
            /\ \A k \in 1..Len(events[i].new_raw_llm_messages) :
                   events[i].new_raw_llm_messages[k].role = messages[initial_message_count + k].role

\* C35: every backoff suspension of a run is announced: when the run starts
\* a sleep, the event emitted last before it is a sleep_seconds event with the
\* duration of the sleep, on the final turn as well.
C35_EverySleepAnnounced ==
    [][hist'.sleeps > hist.sleeps =>
          /\ response_metadata > 0
          /\ events # << >>
          /\ Last(events) = SleepEvent(response_metadata)]_vars

\* C36: a turn after which the run appends an assistant Message and emits
\* new_raw_llm_messages has emitted a finish_reason event first; a chunk
\* stream that ends with no finish reason in any chunk does not end in an
\* assistant Message appended and reported as a finished answer.
C36_FinishReasonBeforeReport ==
    \A i \in EventsOfType("new_raw_llm_messages") :
        /\ i > 1
        /\ events[i - 1].kind = "json"
        /\ events[i - 1].has_type
        /\ events[i - 1].type = "finish_reason"
        /\ hist.turn_finish[Len(hist.turn_finish)] # NoFinish

\* what the stream events of the chunks q carry, concatenated: rec is
\* [p: the processor before q, content, tool_args: the text so far]
RECURSIVE Streamed(_, _)
Streamed(rec, q) ==
    IF q = << >> THEN rec
    ELSE LET r == process_chunk(rec.p, Head(q))
         IN  Streamed([p |-> r.p,
                       content |-> IF r.sc.content.some
                                   THEN SCat(rec.content, r.sc.content.v) ELSE rec.content,
                       tool_args |-> IF r.sc.tool_args.some
                                     THEN SCat(rec.tool_args, r.sc.tool_args.v) ELSE rec.tool_args],
                      Tail(q))

\* the argument texts of the ToolCalls tcs, concatenated
RECURSIVE ArgumentsOf(_)
ArgumentsOf(tcs) ==
    IF tcs = << >> THEN << >> ELSE SCat(Head(tcs).arguments, ArgumentsOf(Tail(tcs)))

\* C37: what the caller received of a turn is what was recorded: the content
\* fields of the turn's stream events, concatenated, are the content of the
\* turn's assistant Message, and the tool_args fields, concatenated, are the
\* argument texts of its ToolCalls, concatenated, also when a chunk has
\* several choices or a delta several tool-call fragments.
C37_StreamedEqualsRecorded ==
    ~acc_raised =>
        LET s == Streamed([p |-> NewProcessor, content |-> << >>, tool_args |-> << >>], fed)
            m == get_assistant_message(processor)
        IN  /\ s.content = m.content
            /\ s.tool_args = ArgumentsOf(m.tool_calls)

(***************************************************************************)
(* SpecMcp: tasks that call initialize, close, call_tool and list_tools of *)
(* the MCPHandler singleton concurrently.  A step of a task is the code    *)
(* between two of its suspension points (the awaits of mcp_handler.py);    *)
(* the lock of initialize is the only thing that makes a task wait.  The   *)
(* session is "null" (None), "new" (a ClientSession being entered and      *)
(* initialized), "live" (initialized) or "closing" (its __aexit__ was      *)
(* called).                                                                *)
(***************************************************************************)
MaxTasks == 2

\* the calls made on the handler, over all tasks
MaxOps == 4

\* the handler's history counts up to MaxCount: MaxCount stands for that many or more
MaxCount == 2

Counted(n) == IF n < MaxCount THEN n + 1 ELSE n

IdleTask == [op |-> "none", pc |-> "idle", failing |-> FALSE]

InitMcp ==
    /\ pc = "mcp"
    /\ messages = << >>
    /\ initial_message_count = 0
    /\ model = "m"
    /\ api_base_url = "u"
    /\ processor = NewProcessor
    /\ response_metadata = 0
    /\ tool_index = 0
    /\ tool_messages = << >>
    /\ events = << >>
    /\ hist = NewHist
    /\ fed = << >>
    /\ acc_raised = FALSE
    /\ litellm = NewLitellm
    /\ runs = << >>
    /\ mcp = NewMcp
    /\ tasks = [t \in 1..MaxTasks |-> IdleTask]

UnchangedButMcp ==
    UNCHANGED << pc, messages, initial_message_count, model, api_base_url, processor,
                 response_metadata, tool_index, tool_messages, events, hist, fed,
                 acc_raised, litellm, runs >>

\* mcp_handler.py 71-80: close from "if self._client_ctx" on, up to its next await
CloseClient(m) ==
    IF m.client_ctx # "null"
    THEN [m |-> m, pc |-> "close_client"]
    ELSE [m |-> [m EXCEPT !.initialized = FALSE], pc |-> "closed"]

\* mcp_handler.py 64-80: close from its start up to its first await
CloseFrom(m) ==
    IF m.session # "null"
    THEN [m |-> [m EXCEPT !.session = "closing"], pc |-> "close_session"]
    ELSE CloseClient(m)

\* close has got to c: it returned (to initialize's except clause, which
\* raises and leaves the lock, when the task is failing), or it is awaiting
Closing(t, c) ==
    IF c.pc = "closed"
    THEN /\ mcp' = IF tasks[t].failing THEN [c.m EXCEPT !.lock = 0] ELSE c.m
         /\ tasks' = [tasks EXCEPT ![t] = IdleTask]
    ELSE /\ mcp' = c.m
         /\ tasks' = [tasks EXCEPT ![t].pc = c.pc]

\* mcp_handler.py 90, 111: ensure_initialized has returned and the call is
\* made on self._session as it is now; initialize itself just returns
AfterInitialize(m, op) ==
    IF op = "initialize" THEN m ELSE [m EXCEPT !.uses = @ \cup { m.session }]

\* a task calls initialize (server.py 60)
StartInitialize(t) ==
    /\ tasks[t].pc = "idle"
    /\ mcp.started < MaxOps
    /\ tasks' = [tasks EXCEPT ![t] = [op |-> "initialize", pc |-> "lock", failing |-> FALSE]]
    /\ mcp' = [mcp EXCEPT !.started = @ + 1]
    /\ UnchangedButMcp

\* mcp_handler.py 82-90, 108-111: a task calls call_tool or list_tools
StartUse(t, op) ==
    /\ tasks[t].pc = "idle"
    /\ mcp.started < MaxOps
    /\ IF mcp.initialized
       THEN /\ mcp' = AfterInitialize([mcp EXCEPT !.started = @ + 1], op)
            /\ tasks' = [tasks EXCEPT ![t] = IdleTask]
       ELSE /\ tasks' = [tasks EXCEPT ![t] = [op |-> op, pc |-> "lock", failing |-> FALSE]]
            /\ mcp' = [mcp EXCEPT !.started = @ + 1]
    /\ UnchangedButMcp

\* the lock taken whoever holds it
AcquireLockBug(t) ==
    /\ tasks[t].pc = "lock"
    /\ IF mcp.initialized
       THEN /\ mcp' = AfterInitialize([mcp EXCEPT !.init_returns = Counted(@)], tasks[t].op)
            /\ tasks' = [tasks EXCEPT ![t] = IdleTask]
       ELSE /\ mcp' = [mcp EXCEPT !.lock = t, !.client_ctx = "open", !.clients = Counted(@)]
            /\ tasks' = [tasks EXCEPT ![t].pc = "client_enter"]
    /\ UnchangedButMcp

\* mcp_handler.py 32-48: the lock is acquired; an initialized handler is left
\* alone, else the stdio client is created and its __aenter__ awaited
AcquireLock(t) ==
    /\ tasks[t].pc = "lock"
    /\ mcp.lock = 0
    /\ IF mcp.initialized
       THEN /\ mcp' = AfterInitialize([mcp EXCEPT !.init_returns = Counted(@)], tasks[t].op)
            /\ tasks' = [tasks EXCEPT ![t] = IdleTask]
       ELSE /\ mcp' = [mcp EXCEPT !.lock = t, !.client_ctx = "open", !.clients = Counted(@)]
            /\ tasks' = [tasks EXCEPT ![t].pc = "client_enter"]
    /\ UnchangedButMcp

\* mcp_handler.py 32-39: the lock is acquired and NASH_PATH is not set:
\* ValueError leaves initialize, and the lock, before anything is opened
AcquireLockNoPath(t) ==
    /\ tasks[t].pc = "lock"
    /\ mcp.lock = 0
    /\ ~mcp.initialized
    /\ mcp' = [mcp EXCEPT !.init_failed = TRUE]
    /\ tasks' = [tasks EXCEPT ![t] = IdleTask]
    /\ UnchangedButMcp

\* mcp_handler.py 48-52: the ClientSession is created and its __aenter__ awaited
ClientEntered(t) ==
    /\ tasks[t].pc = "client_enter"
    /\ mcp' = [mcp EXCEPT !.session = "new", !.sessions = Counted(@)]
    /\ tasks' = [tasks EXCEPT ![t].pc = "session_enter"]
    /\ UnchangedButMcp

\* mcp_handler.py 52-53: self._session.initialize() is awaited
SessionEntered(t) ==
    /\ tasks[t].pc = "session_enter"
    /\ mcp.session # "null"
    /\ tasks' = [tasks EXCEPT ![t].pc = "session_init"]
    /\ UNCHANGED mcp
    /\ UnchangedButMcp

\* mcp_handler.py 53-55: the handler is marked initialized and the lock left
SessionInitialized(t) ==
    /\ tasks[t].pc = "session_init"
    /\ mcp' = AfterInitialize([mcp EXCEPT !.session = IF @ = "new" THEN "live" ELSE @,
                                          !.initialized = TRUE,
                                          !.lock = 0,
                                          !.init_returns = Counted(@)],
                              tasks[t].op)
    /\ tasks' = [tasks EXCEPT ![t] = IdleTask]
    /\ UnchangedButMcp

\* mcp_handler.py 56-60: an await of initialize raises (also the
\* AttributeError of self._session.initialize() on None); close is awaited
InitFails(t) ==
    /\ tasks[t].pc \in { "client_enter", "session_enter", "session_init" }
    /\ LET c == CloseFrom([mcp EXCEPT !.init_failed = TRUE])
       IN  IF c.pc = "closed"
           THEN /\ mcp' = [c.m EXCEPT !.lock = 0]
                /\ tasks' = [tasks EXCEPT ![t] = IdleTask]
           ELSE /\ mcp' = c.m
                /\ tasks' = [tasks EXCEPT ![t].pc = c.pc, ![t].failing = TRUE]
    /\ UnchangedButMcp

\* mcp_handler.py 62-66: a task calls close (server.py 70)
StartClose(t) ==
    /\ tasks[t].pc = "idle"
    /\ mcp.started < MaxOps
    /\ LET c == CloseFrom([mcp EXCEPT !.closing = TRUE, !.started = @ + 1])
       IN  IF c.pc = "closed"
           THEN /\ mcp' = c.m
                /\ tasks' = [tasks EXCEPT ![t] = IdleTask]
           ELSE /\ mcp' = c.m
                /\ tasks' = [tasks EXCEPT ![t] = [op |-> "close", pc |-> c.pc, failing |-> FALSE]]
    /\ UnchangedButMcp

\* mcp_handler.py 66-74: the session's __aexit__ is over; self._session = None
CloseSessionExited(t) ==
    /\ tasks[t].pc = "close_session"
    /\ Closing(t, CloseClient([mcp EXCEPT !.session = "null"]))
    /\ UnchangedButMcp

\* mcp_handler.py 74-80: the client's __aexit__ is over; the fields are reset
CloseClientExited(t) ==
    /\ tasks[t].pc = "close_client"
    /\ Closing(t, [m |-> [mcp EXCEPT !.client_ctx = "null", !.initialized = FALSE],
                   pc |-> "closed"])
    /\ UnchangedButMcp

NextMcp ==
    \/ \E t \in DOMAIN tasks : StartInitialize(t)
    \/ \E t \in DOMAIN tasks : \E op \in { "call_tool", "list_tools" } : StartUse(t, op)
    \/ \E t \in DOMAIN tasks : AcquireLock(t)
    \/ \E t \in DOMAIN tasks : AcquireLockNoPath(t)
    \/ \E t \in DOMAIN tasks : ClientEntered(t)
    \/ \E t \in DOMAIN tasks : SessionEntered(t)
    \/ \E t \in DOMAIN tasks : SessionInitialized(t)
    \/ \E t \in DOMAIN tasks : InitFails(t)
    \/ \E t \in DOMAIN tasks : StartClose(t)
    \/ \E t \in DOMAIN tasks : CloseSessionExited(t)
    \/ \E t \in DOMAIN tasks : CloseClientExited(t)

SpecMcp == InitMcp /\ [][NextMcp]_vars

\* C38: under every interleaving of initialize, close, call_tool and
\* list_tools, a handler that reports initialized has a session, and no
\* call_tool or list_tools that passed ensure_initialized was made on an
\* absent or closed session.
C38_InitializedHasSession ==
    /\ mcp.initialized => mcp.session # "null"
    /\ mcp.uses \subseteq { "live" }

\* the tasks that are in initialize, by their own call or by ensure_initialized
Initializing == { t \in DOMAIN tasks : tasks[t].pc \in { "lock", "client_enter", "session_enter", "session_init" } }

\* C39: when tasks call initialize or ensure_initialized concurrently on an
\* uninitialized handler and initialization succeeds, one client connection
\* and one session are opened: as long as close was never called and no
\* initialization failed, at most one client and one session exist, only the
\* holder of the lock is past it, and a call of initialize that has returned
\* left the handler initialized with exactly one of each.
C39_OneConnectionPerInitialization ==
    (~mcp.closing /\ ~mcp.init_failed) =>
        /\ mcp.clients <= 1
        /\ mcp.sessions <= 1
        /\ \A t \in Initializing : tasks[t].pc # "lock" => mcp.lock = t
        /\ mcp.init_returns > 0 =>
               /\ mcp.initialized
               /\ mcp.clients = 1
               /\ mcp.sessions = 1
               /\ mcp.session = "live"

\* two calls have returned from initialize, the second having waited for the lock
C39_Witness ==
    /\ ~mcp.closing
    /\ ~mcp.init_failed
    /\ mcp.init_returns = 2
    /\ mcp.clients = 1
    /\ mcp.sessions = 1

\* C40: the model sees a fresh tool result in full: at the provider request
\* that follows a tool-dispatch turn, the tool Message the turn appended is
\* the last Message of the Conversation, and its content is whole, the value
\* the turn's tool_result event carried, whatever its length.
C40_FreshToolResultInFull ==
    [][(ProviderRequested /\ hist.requests > 0) =>
          /\ Len(messages') = Len(messages)
          /\ Last(messages').role = "tool"
          /\ Last(messages') = Last(messages)
          /\ EventsOfType("tool_result") # { }
          /\ LastToolResultEvent.tool_result = Some(Last(messages').content)]_vars

\* the second request of a run is out with the result of the first turn's
\* tool call, 6000 characters, as the last Message
C40_Witness ==
    /\ hist.requests = 2
    /\ pc = "streaming"
    /\ initial_message_count = 2
    /\ Len(messages) = 4
    /\ Last(messages).role = "tool"
    /\ SLen(Last(messages).content) > TruncateLimit
    /\ LastToolResultEvent.tool_result = Some(Rep("r", 6000))

====
